---- MODULE Spec2Model ----
(***************************************************************************)
(* fermata (setka-monorepo): the pipeline status of a recording is         *)
(* inferred from the contents of its directory and advanced by running     *)
(* external tools.  The model covers the status detector, the pipeline     *)
(* model (next step, legality of a manual step, retry resolution) and the  *)
(* step executor with the process runner.                                  *)
(*                                                                         *)
(* Text is a sequence of one-character strings, so that trimming and line  *)
(* splitting are computed the way the Rust standard library computes them. *)
(* A file name is a record [stem, ext]; ext = "" is a name without         *)
(* extension.  A directory listing is a sequence: its order is the         *)
(* enumeration order of read_dir.                                          *)
(***************************************************************************)
EXTENDS Integers, Sequences, FiniteSets, TLC

VARIABLES
    root,       \* the recordings directory: recording name -> directory entry
    workspace,  \* the workspace root: medusaConfig (config_example.json exists)
    config,     \* AppConfig: main_audio_file
    recording,  \* a Recording value held by a caller (status, name)
    calls,      \* command invocations in progress: call id -> frame
    procs,      \* caller -> the external processes of its command, in spawn order
    ret         \* what the last finished operation returned

vars == <<root, workspace, config, recording, calls, procs, ret>>

----------------------------------------------------------------------------
(* Bounds *)

\* longest error.log / .failed content drawn
MaxLen == 3

\* the latest modification time drawn, in half seconds
MaxTime == 3

----------------------------------------------------------------------------
(* Text *)

Chars == {"a", " ", "\n"}

TextsUpTo(n) == UNION {[1..k -> Chars] : k \in 0..n}

\* char::is_whitespace on the characters drawn
IsWhitespace(c) == c \in {" ", "\n", "\t", "\r"}

RECURSIVE TrimStart(_)
TrimStart(s) ==
    IF s # <<>> /\ IsWhitespace(Head(s)) THEN TrimStart(Tail(s)) ELSE s

RECURSIVE TrimEnd(_)
TrimEnd(s) ==
    IF s # <<>> /\ IsWhitespace(s[Len(s)])
    THEN TrimEnd(SubSeq(s, 1, Len(s) - 1))
    ELSE s

\* str::trim
Trim(s) == TrimEnd(TrimStart(s))

\* index of the first line feed of s, 0 when there is none
FirstNewline(s) ==
    IF \E i \in 1..Len(s) : s[i] = "\n"
    THEN CHOOSE i \in 1..Len(s) : s[i] = "\n" /\ \A j \in 1..(i - 1) : s[j] # "\n"
    ELSE 0

\* a line without its trailing carriage return
StripCr(l) ==
    IF l # <<>> /\ l[Len(l)] = "\r" THEN SubSeq(l, 1, Len(l) - 1) ELSE l

\* str::lines: split at line feeds, the final line ending is optional
RECURSIVE Lines(_)
Lines(s) ==
    IF s = <<>> THEN <<>>
    ELSE LET i == FirstNewline(s)
         IN IF i = 0 THEN <<StripCr(s)>>
            ELSE <<StripCr(SubSeq(s, 1, i - 1))>> \o Lines(SubSeq(s, i + 1, Len(s)))

UnknownErrorMsg == <<"U","n","k","n","o","w","n"," ","e","r","r","o","r">>

ProcessFailedMsg == <<"P","r","o","c","e","s","s"," ","f","a","i","l","e","d">>

----------------------------------------------------------------------------
(* The filesystem *)

Names == {"rec", "alt"}

FName(stem, ext) == [stem |-> stem, ext |-> ext]

\* Path::extension
Extension(f) == f.ext

\* the callers that invoke commands, each awaiting one command at a time
Callers == {"ui1", "ui2"}

\* ret when the last step returned nothing to a caller
NoRet == [op |-> "none"]

\* a caller with no command in progress
IdleFrame == [pc |-> "idle"]

\* config.main_audio_file is a file name, NoAudio the empty string
NoAudio == FName("", "")

NoFile == [exists |-> FALSE, readable |-> FALSE, content |-> <<>>]

TextFile(c) == [exists |-> TRUE, readable |-> TRUE, content |-> c]

\* exists, and read_to_string fails on it (a directory, not UTF-8, no permission)
UnreadableFile == [exists |-> TRUE, readable |-> FALSE, content |-> <<>>]

NoSub == [kind |-> "none", files |-> <<>>]

FileSub == [kind |-> "file", files |-> <<>>]

DirSub(files) == [kind |-> "dir", files |-> files]

\* a directory that cannot be listed (no read permission): read_dir fails on it
LockedSub == [kind |-> "locked", files |-> <<>>]

\* Path::exists
Exists(sub) == sub.kind # "none"

\* Path::is_dir
IsDir(sub) == sub.kind \in {"dir", "locked"}

\* read_dir(..) is Ok
Listable(sub) == sub.kind = "dir"

\* read_dir(..).flatten(): the entries, none for what cannot be listed
Entries(sub) == IF Listable(sub) THEN sub.files ELSE <<>>

HasExt(sub, exts) ==
    \E i \in 1..Len(Entries(sub)) : Extension(Entries(sub)[i]) \in exts

HasFile(sub, f) == \E i \in 1..Len(Entries(sub)) : Entries(sub)[i] = f

NoEntry ==
    [kind |-> "none", mtime |-> 0, top |-> <<>>,
     errorLog |-> NoFile, failed |-> NoFile,
     extracted |-> NoSub, analysis |-> NoSub, blender |-> NoSub,
     render |-> NoSub, uploads |-> NoSub, yaml |-> FALSE]

\* a recording directory holding only its video file
BareDir(name) == [NoEntry EXCEPT !.kind = "dir", !.mtime = 1,
                                 !.top = <<FName(name, "mp4")>>]

----------------------------------------------------------------------------
(* RecordingStatus and NextStep *)

St(tag) == [tag |-> tag, reason |-> <<>>]

Failed(reason) == [tag |-> "Failed", reason |-> reason]

Recorded == St("Recorded")
Extracted == St("Extracted")
Analyzed == St("Analyzed")
SetupRendered == St("SetupRendered")
Rendered == St("Rendered")
Uploaded == St("Uploaded")

None == [some |-> FALSE, val |-> "-"]

Some(v) == [some |-> TRUE, val |-> v]

----------------------------------------------------------------------------
(* StatusDetector *)

has_extracted_files(d) == Exists(d.extracted) /\ IsDir(d.extracted)

has_analysis_files(d) ==
    IF ~Exists(d.analysis) \/ ~IsDir(d.analysis) THEN FALSE
    ELSE HasExt(d.analysis, {"json"})

has_render_setup(d) ==
    IF ~Exists(d.blender) \/ ~IsDir(d.blender) THEN FALSE
    ELSE HasExt(d.blender, {"blend"})

has_rendered_video(d) ==
    IF ~Exists(d.render) \/ ~IsDir(d.render) THEN FALSE
    ELSE HasExt(d.render, {"mp4", "mkv", "avi"})

has_uploads(d) ==
    IF ~Exists(d.uploads) \/ ~IsDir(d.uploads) THEN FALSE
    ELSE HasFile(d.uploads, FName("upload_results", "json"))

\* the reason taken from a readable error.log with content
ErrorLogReason(content) ==
    LET ls == Lines(content)
    IN IF ls = <<>> THEN UnknownErrorMsg ELSE ls[Len(ls)]

\* the reason taken from a readable .failed marker
FailedMarkerReason(content) == Trim(content)

check_for_errors(d) ==
    IF d.errorLog.exists /\ d.errorLog.readable /\ Trim(d.errorLog.content) # <<>>
    THEN Some(ErrorLogReason(d.errorLog.content))
    ELSE IF d.failed.exists
         THEN IF d.failed.readable
              THEN Some(FailedMarkerReason(d.failed.content))
              ELSE Some(ProcessFailedMsg)
         ELSE None

\* faulty variant: the progress checks run in pipeline order, least advanced first
ProgressStatus_m(d) ==
    IF has_extracted_files(d) THEN Extracted
    ELSE IF has_analysis_files(d) THEN Analyzed
    ELSE IF has_render_setup(d) THEN SetupRendered
    ELSE IF has_rendered_video(d) THEN Rendered
    ELSE IF has_uploads(d) THEN Uploaded
    ELSE Recorded

\* the progress checks of detect_status, most advanced first
ProgressStatus(d) ==
    IF has_uploads(d) THEN Uploaded
    ELSE IF has_rendered_video(d) THEN Rendered
    ELSE IF has_render_setup(d) THEN SetupRendered
    ELSE IF has_analysis_files(d) THEN Analyzed
    ELSE IF has_extracted_files(d) THEN Extracted
    ELSE Recorded

\* faulty variant: the upload marker is looked at before the error markers
detect_status_m(d) ==
    LET error == check_for_errors(d)
    IN IF has_uploads(d) THEN Uploaded
       ELSE IF error.some THEN Failed(error.val) ELSE ProgressStatus(d)

detect_status(d) ==
    LET error == check_for_errors(d)
    IN IF error.some THEN Failed(error.val) ELSE ProgressStatus(d)

\* StatusDetector::detect_status(path) called on recordings_path/name
DetectStatus(name) ==
    /\ ret' = [op |-> "detect_status", name |-> name,
               val |-> detect_status(root[name])]
    /\ UNCHANGED <<root, workspace, config, recording, calls, procs>>

----------------------------------------------------------------------------
(* Inputs of the detector *)

VideoSamples == {<<>>, <<FName("out", "txt")>>, <<FName("out", "mp4")>>,
                 <<FName("out", "mkv")>>, <<FName("out", "txt"), FName("out", "avi")>>}

\* the stage markers in every combination, qualifying or not
MarkerDirs ==
    {[BareDir("rec") EXCEPT !.extracted = ex, !.analysis = an, !.blender = bl,
                            !.render = rn, !.uploads = up] :
        ex \in {NoSub, FileSub, DirSub(<<>>)},
        an \in {NoSub, DirSub(<<>>), DirSub(<<FName("beats", "json")>>)},
        bl \in {NoSub, DirSub(<<>>), DirSub(<<FName("project", "blend")>>)},
        rn \in {NoSub} \cup {DirSub(v) : v \in VideoSamples},
        up \in {NoSub, DirSub(<<>>), DirSub(<<FName("upload_results", "json")>>)}}

WellFormed(d) == Exists(d.render) => IsDir(d.blender)

LogFiles(n) == {NoFile, UnreadableFile} \cup {TextFile(c) : c \in TextsUpTo(n)}

MarkerSamples == {NoFile, UnreadableFile, TextFile(<<>>), TextFile(<<"a">>)}

\* every stage-marker combination under a drawn error.log and a sampled .failed
InitMarkers ==
    \E d \in MarkerDirs, el \in LogFiles(MaxLen), fm \in MarkerSamples :
        /\ WellFormed(d)
        /\ root = [n \in Names |->
                    IF n = "rec" THEN [d EXCEPT !.errorLog = el, !.failed = fm]
                    ELSE NoEntry]

\* every error.log with every .failed, in a bare and in an uploaded recording
InitErrors ==
    \E el \in LogFiles(MaxLen), fm \in LogFiles(MaxLen),
       up \in {NoSub, DirSub(<<FName("upload_results", "json")>>)} :
        root = [n \in Names |->
                  IF n = "rec"
                  THEN [BareDir("rec") EXCEPT !.errorLog = el, !.failed = fm,
                                              !.uploads = up]
                  ELSE NoEntry]

Idle ==
    /\ workspace = [medusaConfig |-> TRUE]
    /\ config = [recordings_path |-> "dir", main_audio_file |-> NoAudio]
    /\ recording = [name |-> "rec", status |-> Recorded, file_sizes |-> {}]
    /\ calls = [c \in Callers |-> IdleFrame]
    /\ procs = [c \in Callers |-> <<>>]
    /\ ret = NoRet

InitDetect == (InitMarkers \/ InitErrors) /\ Idle

NextDetect == \E n \in Names : DetectStatus(n)

SpecDetect == InitDetect /\ [][NextDetect]_vars

----------------------------------------------------------------------------
(* Claims on the status detector (under SpecDetect) *)

Detected == ret.op = "detect_status"

\* error.log can be read and holds something other than whitespace
LogHasContent(d) ==
    d.errorLog.exists /\ d.errorLog.readable
        /\ \E i \in 1..Len(d.errorLog.content) : ~IsWhitespace(d.errorLog.content[i])

\* the documented precedence of the stage markers, stated on the directory
StageByMarkers(d) ==
    IF IsDir(d.uploads)
         /\ \E i \in 1..Len(d.uploads.files) :
               d.uploads.files[i] = FName("upload_results", "json")
    THEN "Uploaded"
    ELSE IF IsDir(d.render)
              /\ \E i \in 1..Len(d.render.files) :
                    d.render.files[i].ext \in {"mp4", "mkv", "avi"}
    THEN "Rendered"
    ELSE IF IsDir(d.blender)
              /\ \E i \in 1..Len(d.blender.files) : d.blender.files[i].ext = "blend"
    THEN "SetupRendered"
    ELSE IF IsDir(d.analysis)
              /\ \E i \in 1..Len(d.analysis.files) : d.analysis.files[i].ext = "json"
    THEN "Analyzed"
    ELSE IF IsDir(d.extracted) THEN "Extracted"
    ELSE "Recorded"

\* C1: with no error marker (no error.log with content, no .failed file)
\* detect_status returns the first match of Uploaded, Rendered, SetupRendered,
\* Analyzed, Extracted, else Recorded, for every combination of markers.
C1_StagePrecedence ==
    (Detected /\ ~LogHasContent(root[ret.name]) /\ ~root[ret.name].failed.exists)
        => ret.val = St(StageByMarkers(root[ret.name]))

\* a rendered video decides the status although extracted/ and analysis/ are absent
C1_Witness ==
    /\ Detected
    /\ ret.val = Rendered
    /\ ~Exists(root[ret.name].extracted)
    /\ ~Exists(root[ret.name].analysis)
    /\ ~LogHasContent(root[ret.name])
    /\ ~root[ret.name].failed.exists

\* C2: a directory whose error.log has content is Failed whatever progress
\* markers are present, never Uploaded.
C2_ErrorPriority ==
    (Detected /\ LogHasContent(root[ret.name])) => ret.val.tag = "Failed"

\* error.log with content beside uploads/upload_results.json was detected Failed
C2_Witness ==
    /\ Detected
    /\ LogHasContent(root[ret.name])
    /\ HasFile(root[ret.name].uploads, FName("upload_results", "json"))
    /\ ret.val.tag = "Failed"

\* the last line of the log that is not the empty string
RECURSIVE LastNonEmpty(_)
LastNonEmpty(ls) ==
    IF ls = <<>> THEN <<>>
    ELSE IF ls[Len(ls)] # <<>> THEN ls[Len(ls)]
    ELSE LastNonEmpty(SubSeq(ls, 1, Len(ls) - 1))

\* C9: when error.log has content, the reason carried by Failed is the last
\* non-empty line of the log, whether or not blank lines follow it.
C9_LastNonEmptyLine ==
    (Detected /\ LogHasContent(root[ret.name]))
        => ret.val = Failed(LastNonEmpty(Lines(root[ret.name].errorLog.content)))

\* C10: when .failed exists and error.log yielded no failure, the status is
\* Failed(content) for a non-empty marker and Failed("Process failed") for an
\* empty one; the reason is never empty.
C10_FailedMarkerReason ==
    (Detected /\ ~LogHasContent(root[ret.name]) /\ root[ret.name].failed.exists
        /\ root[ret.name].failed.readable)
        => /\ ret.val.tag = "Failed"
           /\ ret.val.reason # <<>>
           /\ root[ret.name].failed.content = <<>>
                 => ret.val.reason = ProcessFailedMsg
           /\ root[ret.name].failed.content # <<>>
                 => ret.val.reason \in {root[ret.name].failed.content,
                                        Trim(root[ret.name].failed.content)}

----------------------------------------------------------------------------
(* Recording: the pipeline model *)

\* char::to_lowercase on the letters
LowerOf ==
    [A |-> "a", B |-> "b", C |-> "c", D |-> "d", E |-> "e", F |-> "f", G |-> "g",
     H |-> "h", I |-> "i", J |-> "j", K |-> "k", L |-> "l", M |-> "m", N |-> "n",
     O |-> "o", P |-> "p", Q |-> "q", R |-> "r", S |-> "s", T |-> "t", U |-> "u",
     V |-> "v", W |-> "w", X |-> "x", Y |-> "y", Z |-> "z"]

LowerChar(c) == IF c \in DOMAIN LowerOf THEN LowerOf[c] ELSE c

\* str::to_lowercase
ToLowercase(s) == [i \in 1..Len(s) |-> LowerChar(s[i])]

ExtractName == <<"e","x","t","r","a","c","t">>
AnalyzeName == <<"a","n","a","l","y","z","e">>
SetupRenderName == <<"s","e","t","u","p","_","r","e","n","d","e","r">>
SetupRenderDashName == <<"s","e","t","u","p","-","r","e","n","d","e","r">>
RenderName == <<"r","e","n","d","e","r">>
UploadName == <<"u","p","l","o","a","d">>
RetryName == <<"r","e","t","r","y">>

\* faulty variant: a failed recording has no next step
get_next_step_m(status) ==
    CASE status.tag = "Recorded" -> Some("Extract")
      [] status.tag = "Extracted" -> Some("Analyze")
      [] status.tag = "Analyzed" -> Some("SetupRender")
      [] status.tag = "SetupRendered" -> Some("Render")
      [] status.tag = "Rendered" -> Some("Upload")
      [] status.tag = "Uploaded" -> None
      [] status.tag = "Failed" -> None

\* Recording::get_next_step
get_next_step(status) ==
    CASE status.tag = "Recorded" -> Some("Extract")
      [] status.tag = "Extracted" -> Some("Analyze")
      [] status.tag = "Analyzed" -> Some("SetupRender")
      [] status.tag = "SetupRendered" -> Some("Render")
      [] status.tag = "Rendered" -> Some("Upload")
      [] status.tag = "Uploaded" -> None
      [] status.tag = "Failed" -> Some("Retry")

\* faulty variant: retry is offered in every status
can_run_step_m(status, step) ==
    LET s == ToLowercase(step)
    IN CASE s = ExtractName -> status.tag \in {"Recorded", "Failed"}
         [] s = AnalyzeName -> status.tag \in {"Extracted", "Failed"}
         [] s \in {SetupRenderName, SetupRenderDashName} ->
                status.tag \in {"Analyzed", "Failed"}
         [] s = RenderName -> status.tag \in {"SetupRendered", "Failed"}
         [] s = UploadName -> status.tag \in {"Rendered", "Failed"}
         [] s = RetryName -> TRUE
         [] OTHER -> FALSE

\* Recording::can_run_step
can_run_step(status, step) ==
    LET s == ToLowercase(step)
    IN CASE s = ExtractName -> status.tag \in {"Recorded", "Failed"}
         [] s = AnalyzeName -> status.tag \in {"Extracted", "Failed"}
         [] s \in {SetupRenderName, SetupRenderDashName} ->
                status.tag \in {"Analyzed", "Failed"}
         [] s = RenderName -> status.tag \in {"SetupRendered", "Failed"}
         [] s = UploadName -> status.tag \in {"Rendered", "Failed"}
         [] s = RetryName -> status.tag \in {"Failed"}
         [] OTHER -> FALSE

\* recording.get_next_step() on the Recording the caller holds
GetNextStep ==
    /\ ret' = [op |-> "get_next_step", status |-> recording.status,
               val |-> get_next_step(recording.status)]
    /\ UNCHANGED <<root, workspace, config, recording, calls, procs>>

\* recording.can_run_step(step) on the Recording the caller holds
CanRunStep(step) ==
    /\ ret' = [op |-> "can_run_step", status |-> recording.status, step |-> step,
               val |-> can_run_step(recording.status, step)]
    /\ UNCHANGED <<root, workspace, config, recording, calls, procs>>

----------------------------------------------------------------------------
(* Inputs of the pipeline model *)

Statuses ==
    {Recorded, Extracted, Analyzed, SetupRendered, Rendered, Uploaded}
        \cup {Failed(r) : r \in TextsUpTo(1) \cup {ProcessFailedMsg}}

\* the step names the commands accept, other spellings of them, and others
StepNames ==
    {ExtractName, AnalyzeName, SetupRenderName, SetupRenderDashName, RenderName,
     UploadName, RetryName,
     <<"R","e","n","d","e","r">>, <<"R","E","T","R","Y">>,
     <<"S","e","t","u","p","_","R","e","n","d","e","r">>,
     <<"S","e","t","u","p"," ","R","e","n","d","e","r">>,
     <<"s","e","t","u","p","r","e","n","d","e","r">>,
     <<"p","u","b","l","i","s","h">>, <<>>}

InitModel ==
    /\ root = [n \in Names |-> NoEntry]
    /\ workspace = [medusaConfig |-> TRUE]
    /\ config = [recordings_path |-> "dir", main_audio_file |-> NoAudio]
    /\ \E n \in Names, s \in Statuses : recording = [name |-> n, status |-> s, file_sizes |-> {}]
    /\ calls = [c \in Callers |-> IdleFrame]
    /\ procs = [c \in Callers |-> <<>>]
    /\ ret = NoRet

NextModel ==
    \/ GetNextStep
    \/ \E step \in StepNames : CanRunStep(step)

SpecModel == InitModel /\ [][NextModel]_vars

----------------------------------------------------------------------------
(* Claims on the pipeline model (under SpecModel) *)

\* the documented next step of each status
NextStepTable ==
    [Recorded |-> Some("Extract"), Extracted |-> Some("Analyze"),
     Analyzed |-> Some("SetupRender"), SetupRendered |-> Some("Render"),
     Rendered |-> Some("Upload"), Uploaded |-> None, Failed |-> Some("Retry")]

\* C3: next_step maps Recorded->Extract, Extracted->Analyze,
\* Analyzed->SetupRender, SetupRendered->Render, Rendered->Upload,
\* Uploaded->none and Failed(any reason)->Retry.
C3_NextStepTotal ==
    ret.op = "get_next_step" => ret.val = NextStepTable[ret.status.tag]

\* the next step of a recording that failed with a reason was asked for
C3_Witness ==
    /\ ret.op = "get_next_step"
    /\ ret.status.tag = "Failed"
    /\ ret.status.reason # <<>>
    /\ ret.val = Some("Retry")

\* the step a name stands for: its case is ignored and setup-render is
\* setup_render; "none" for a name the commands do not know
StepOfName(step) ==
    LET s == ToLowercase(step)
    IN IF s = ExtractName THEN "extract"
       ELSE IF s = AnalyzeName THEN "analyze"
       ELSE IF s = SetupRenderName \/ s = SetupRenderDashName THEN "setup_render"
       ELSE IF s = RenderName THEN "render"
       ELSE IF s = UploadName THEN "upload"
       ELSE IF s = RetryName THEN "retry"
       ELSE "none"

\* the single status each step requires
Prerequisite ==
    [extract |-> "Recorded", analyze |-> "Extracted", setup_render |-> "Analyzed",
     render |-> "SetupRendered", upload |-> "Rendered", retry |-> "Failed"]

\* C4: can_run_step(status, step) is true exactly when the step name is one of
\* the six and the status is Failed or the step's single prerequisite status
\* (retry only for Failed); false for every other pair and every unknown name.
C4_CanRunStepExact ==
    ret.op = "can_run_step"
        => (ret.val <=> /\ StepOfName(ret.step) # "none"
                        /\ \/ ret.status.tag = "Failed"
                           \/ ret.status.tag = Prerequisite[StepOfName(ret.step)])

\* render was allowed for a failed recording
C4_Witness ==
    /\ ret.op = "can_run_step"
    /\ ret.val
    /\ ret.status.tag = "Failed"
    /\ ret.step = RenderName

----------------------------------------------------------------------------
(* FileScanner *)

\* StatusDetector::get_video_file_size(path).is_some()
has_video(d) ==
    \E i \in 1..Len(d.top) : Extension(d.top[i]) \in {"mkv", "mp4"}

\* StatusDetector::validate_recording_structure: "ok" or the error
validate_recording_structure(d) ==
    IF d.kind = "none" THEN "NotFound"
    ELSE IF d.kind # "dir" THEN "NotADirectory"
    ELSE IF ~has_video(d) /\ ~Exists(d.extracted) THEN "NotARecording"
    ELSE "ok"

\* faulty variant: every directory is taken for a recording
is_valid_recording_dir_m(d) == d.kind = "dir"

is_valid_recording_dir(d) ==
    IF d.kind # "dir" THEN FALSE ELSE validate_recording_structure(d) = "ok"

\* mtime counts half seconds since the Unix epoch, negative before it
TicksPerSecond == 2

\* Duration::as_secs
as_secs(ticks) == ticks \div TicksPerSecond

\* Recording::from_path: None when the modification time cannot be expressed
\* since the epoch
from_path(name, d) ==
    IF d.mtime < 0 THEN None
    ELSE Some([name |-> name, status |-> Recorded,
               last_updated |-> as_secs(d.mtime), file_sizes |-> {}])

\* a file of the recording directory, by its path relative to it
InDir(dir, f) == [dir |-> dir, file |-> f]

\* file_sizes.insert(path_str, metadata.len())
SizeEntry(path, len) == [path |-> path, len |-> len]

\* the regular files the walk meets at or under a subdirectory; the model
\* keeps no content for them: they are empty files
FilesOf(dir, sub) ==
    IF sub.kind = "file" THEN {SizeEntry(InDir("", FName(dir, "")), 0)}
    ELSE {SizeEntry(InDir(dir, sub.files[i]), 0) : i \in 1..Len(sub.files)}

\* the text files of the model: their length is the length of their content
\* (a marker that exists is taken to be a regular file)
MarkerOf(f, file) ==
    IF file.exists THEN {SizeEntry(InDir("", f), Len(file.content))} ELSE {}

StepSubs(d) == {d.extracted, d.analysis, d.blender, d.render, d.uploads}

\* WalkDir yields an Err for a directory it cannot list
WalkFails(d) == \E sub \in StepSubs(d) : sub.kind = "locked"

\* the entries of the walk that are regular files, each with its path
\* relative to the recording directory and metadata.len()
RegularFiles(d) ==
    {SizeEntry(InDir("", d.top[i]), 0) : i \in 1..Len(d.top)}
        \cup MarkerOf(FName("error", "log"), d.errorLog)
        \cup MarkerOf(FName("", "failed"), d.failed)
        \cup (IF d.yaml
              THEN {SizeEntry(InDir("", FName("animation_config_beat-switch", "yaml")), 0)}
              ELSE {})
        \cup FilesOf("extracted", d.extracted) \cup FilesOf("analysis", d.analysis)
        \cup FilesOf("blender", d.blender) \cup FilesOf("blender/render", d.render)
        \cup FilesOf("uploads", d.uploads)

\* faulty variant: the directories are entered in the map as well
get_file_info_m(d) ==
    IF d.kind = "none" \/ WalkFails(d) THEN {}
    ELSE IF d.kind = "file" THEN {SizeEntry(InDir("", FName("", "")), 0)}
    ELSE RegularFiles(d)
            \cup {SizeEntry(InDir("", FName(n, "")), 0) :
                    n \in {n \in {"extracted", "analysis", "blender", "uploads"} :
                               IsDir(d[n])}}

\* StatusDetector::get_file_info: the map as the set of its entries, one for
\* each regular file of the walk, and no entry at all when the walk, collected
\* into one Result, holds an Err (the path is not there, or a directory under
\* it cannot be listed); the walk of a path that is a file is that file, its
\* relative path empty
get_file_info(d) ==
    IF d.kind = "none" \/ WalkFails(d) THEN {}
    ELSE IF d.kind = "file" THEN {SizeEntry(InDir("", FName("", "")), 0)}
    ELSE RegularFiles(d)

\* faulty variant: a status other than the initial one is kept
update_recording_status_m(rec, d) ==
    IF rec.status # Recorded THEN rec
    ELSE [rec EXCEPT !.status = detect_status(d), !.file_sizes = get_file_info(d)]

\* update_recording_status
update_recording_status(rec, d) ==
    [rec EXCEPT !.status = detect_status(d), !.file_sizes = get_file_info(d)]

\* the position sort_by(|a, b| b.last_updated.cmp(&a.last_updated)) gives r:
\* behind every recording that is not older (the sort is stable)
RECURSIVE InsertByTime(_, _)
InsertByTime(sorted, r) ==
    IF sorted = <<>> THEN <<r>>
    ELSE IF Head(sorted).last_updated >= r.last_updated
         THEN <<Head(sorted)>> \o InsertByTime(Tail(sorted), r)
         ELSE <<r>> \o sorted

RECURSIVE SortByTime(_)
SortByTime(rs) ==
    IF rs = <<>> THEN <<>>
    ELSE InsertByTime(SortByTime(SubSeq(rs, 1, Len(rs) - 1)), rs[Len(rs)])

\* the recordings pushed while read_dir enumerates the root in `order`
RECURSIVE Collect(_, _)
Collect(r, order) ==
    IF order = <<>> THEN <<>>
    ELSE LET name == Head(order)
             made == from_path(name, r[name])
         IN (IF r[name].kind = "dir" /\ is_valid_recording_dir(r[name]) /\ made.some
             THEN <<update_recording_status(made.val, r[name])>>
             ELSE <<>>) \o Collect(r, Tail(order))

\* FileScanner::scan_recordings; root_kind is what recordings_path names:
\* "none", a "file", a "dir", or a directory read_dir fails on ("unlistable")
scan_recordings(root_kind, r, order) ==
    IF root_kind \notin {"dir", "unlistable"} THEN <<>>
    ELSE IF root_kind = "unlistable" THEN <<>>
    ELSE SortByTime(Collect(r, order))

\* recordings.into_iter().find(|r| r.name == recording_name)
Find(recordings, name) ==
    IF \E i \in 1..Len(recordings) : recordings[i].name = name
    THEN Some(recordings[CHOOSE i \in 1..Len(recordings) :
                            /\ recordings[i].name = name
                            /\ \A j \in 1..(i - 1) : recordings[j].name # name])
    ELSE None

\* the orders in which read_dir may enumerate the recordings directory
Orders == {o \in [1..Cardinality(Names) -> Names] :
              \A i, j \in 1..Cardinality(Names) : i # j => o[i] # o[j]}

----------------------------------------------------------------------------
(* Step executor: what execute_step does up to its first await *)

Err(kind, detail) == [ok |-> FALSE, kind |-> kind, detail |-> detail]

Ok(kind, detail) == [ok |-> TRUE, kind |-> kind, detail |-> detail]

\* execute_step returns this error without running anything
Fail(kind, detail) == [do |-> "fail", err |-> Err(kind, detail)]

\* execute_step runs this tool and awaits it
Run(tool, args) == [do |-> "run", tool |-> tool, args |-> args]

RECURSIVE FilterExt(_, _)
FilterExt(files, ext) ==
    IF files = <<>> THEN <<>>
    ELSE (IF Extension(Head(files)) = ext THEN <<Head(files)>> ELSE <<>>)
            \o FilterExt(Tail(files), ext)

Contains(files, f) == \E i \in 1..Len(files) : files[i] = f

\* faulty variant: the last audio file is analysed
AnalyzePlan_m(d) ==
    IF ~Exists(d.extracted) THEN Fail("ExtractedDirNotFound", <<>>)
    ELSE IF ~Listable(d.extracted) THEN Fail("ReadDirFailed", "extracted")
    ELSE LET audio_files == FilterExt(d.extracted.files, "m4a")
         IN IF audio_files = <<>>
            THEN Fail("NoAudioFile", d.extracted.files)
            ELSE Run("beatrix", [audio |-> audio_files[Len(audio_files)],
                                 out |-> "analysis"])

\* execute_step, Analyze: the first .m4a file of extracted/ goes to beatrix
AnalyzePlan(d) ==
    IF ~Exists(d.extracted) THEN Fail("ExtractedDirNotFound", <<>>)
    ELSE IF ~Listable(d.extracted) THEN Fail("ReadDirFailed", "extracted")
    ELSE LET audio_files == FilterExt(d.extracted.files, "m4a")
         IN IF audio_files = <<>>
            THEN Fail("NoAudioFile", d.extracted.files)
            ELSE Run("beatrix", [audio |-> audio_files[1], out |-> "analysis"])

\* run_cinemon_render / run_cinemon_render_with_audio: the config generator first
CinemonPlan(preset, main_audio) ==
    Run("cinemon-generate-config", [preset |-> preset, main_audio |-> main_audio])

\* run_cinemon_render_with_audio: the preset a legacy animation mode stands for
LegacyPreset(animation_mode) ==
    CASE animation_mode = "beat-switch" -> "beat-switch"
      [] animation_mode = "energy-pulse" -> "music-video"
      [] animation_mode = "multi-pip" -> "vintage"
      [] OTHER -> "beat-switch"

\* faulty variant: the configured main audio file is passed on also when it is
\* the only audio file
SetupRenderPlan_one(d, cfg) ==
    IF ~Exists(d.analysis) THEN Fail("AnalysisDirNotFound", <<>>)
    ELSE IF Exists(d.extracted)
    THEN IF ~Listable(d.extracted) THEN Fail("ReadDirFailed", "extracted")
         ELSE LET audio_files == FilterExt(d.extracted.files, "m4a")
              IN IF Len(audio_files) > 0
                 THEN IF cfg.main_audio_file # NoAudio
                            /\ Contains(audio_files, cfg.main_audio_file)
                      THEN CinemonPlan(LegacyPreset("beat-switch"),
                                       Some(cfg.main_audio_file))
                      ELSE IF Len(audio_files) > 1
                      THEN Fail("MultipleAudioFiles", audio_files)
                      ELSE CinemonPlan("beat-switch", None)
                 ELSE CinemonPlan("beat-switch", None)
    ELSE CinemonPlan("beat-switch", None)

\* faulty variant: with several audio files and no usable setting the tool is
\* run without a main audio file
SetupRenderPlan_m(d, cfg) ==
    IF ~Exists(d.analysis) THEN Fail("AnalysisDirNotFound", <<>>)
    ELSE IF Exists(d.extracted) /\ ~Listable(d.extracted)
    THEN Fail("ReadDirFailed", "extracted")
    ELSE IF cfg.main_audio_file # NoAudio
              /\ Contains(FilterExt(Entries(d.extracted), "m4a"), cfg.main_audio_file)
    THEN CinemonPlan("beat-switch", Some(cfg.main_audio_file))
    ELSE CinemonPlan("beat-switch", None)

\* execute_step, SetupRender: run_cinemon_render_with_audio with the configured
\* main audio file, or run_cinemon_render called with the recording and the
\* preset alone (no main audio)
SetupRenderPlan(d, cfg) ==
    IF ~Exists(d.analysis) THEN Fail("AnalysisDirNotFound", <<>>)
    ELSE IF Exists(d.extracted)
    THEN IF ~Listable(d.extracted) THEN Fail("ReadDirFailed", "extracted")
         ELSE LET audio_files == FilterExt(d.extracted.files, "m4a")
              IN IF Len(audio_files) > 1
                 THEN IF cfg.main_audio_file # NoAudio
                            /\ Contains(audio_files, cfg.main_audio_file)
                      THEN CinemonPlan(LegacyPreset("beat-switch"),
                                       Some(cfg.main_audio_file))
                      ELSE Fail("MultipleAudioFiles", audio_files)
                 ELSE CinemonPlan("beat-switch", None)
    ELSE CinemonPlan("beat-switch", None)

\* faulty variant: a project that is there is rendered by a process
RenderPlan_m(d) ==
    IF ~Exists(d.blender) THEN Fail("BlenderProjectNotFound", <<>>)
    ELSE IF ~Listable(d.blender) THEN Fail("ReadDirFailed", "blender")
    ELSE IF FilterExt(d.blender.files, "blend") = <<>>
    THEN Fail("NoBlendFile", <<>>)
    ELSE Run("blender", [project |-> FilterExt(d.blender.files, "blend")[1]])

RenderPlan(d) ==
    IF ~Exists(d.blender) THEN Fail("BlenderProjectNotFound", <<>>)
    ELSE IF ~Listable(d.blender) THEN Fail("ReadDirFailed", "blender")
    ELSE IF FilterExt(d.blender.files, "blend") = <<>>
    THEN Fail("NoBlendFile", <<>>)
    ELSE Fail("ManualRenderRequired", <<>>)

\* faulty variant: the upload configuration is not looked for
UploadPlan_m(d, ws) ==
    IF ~Exists(d.render) THEN Fail("RenderDirNotFound", <<>>)
    ELSE IF ~Listable(d.render) THEN Fail("ReadDirFailed", "render")
    ELSE LET video_files == FilterExt(d.render.files, "mp4")
         IN IF video_files = <<>> THEN Fail("NoVideoFile", <<>>)
            ELSE Run("medusa", [video |-> video_files[1],
                                config |-> "config_example.json"])

\* faulty variant: the last matching video is uploaded
UploadPlan_last(d, ws) ==
    IF ~Exists(d.render) THEN Fail("RenderDirNotFound", <<>>)
    ELSE IF ~Listable(d.render) THEN Fail("ReadDirFailed", "render")
    ELSE LET video_files == FilterExt(d.render.files, "mp4")
         IN IF video_files = <<>> THEN Fail("NoVideoFile", <<>>)
            ELSE IF ~ws.medusaConfig THEN Fail("MedusaConfigNotFound", <<>>)
            ELSE Run("medusa", [video |-> video_files[Len(video_files)],
                                config |-> "config_example.json"])

UploadPlan(d, ws) ==
    IF ~Exists(d.render) THEN Fail("RenderDirNotFound", <<>>)
    ELSE IF ~Listable(d.render) THEN Fail("ReadDirFailed", "render")
    ELSE LET video_files == FilterExt(d.render.files, "mp4")
         IN IF video_files = <<>> THEN Fail("NoVideoFile", <<>>)
            ELSE IF ~ws.medusaConfig THEN Fail("MedusaConfigNotFound", <<>>)
            ELSE Run("medusa", [video |-> video_files[1],
                                config |-> "config_example.json"])

\* faulty variant: a Retry that reaches the executor is run as the analysis
execute_step_m(d, step, cfg, ws) ==
    CASE step = "Extract" -> Fail("ExtractNotImplemented", <<>>)
      [] step = "Analyze" -> AnalyzePlan(d)
      [] step = "SetupRender" -> SetupRenderPlan(d, cfg)
      [] step = "Render" -> RenderPlan(d)
      [] step = "Upload" -> UploadPlan(d, ws)
      [] step = "Retry" -> Run("beatrix", [audio |-> FName("audio", "m4a"),
                                           out |-> "analysis"])

\* execute_step, up to the first process it spawns
execute_step(d, step, cfg, ws) ==
    CASE step = "Extract" -> Fail("ExtractNotImplemented", <<>>)
      [] step = "Analyze" -> AnalyzePlan(d)
      [] step = "SetupRender" -> SetupRenderPlan(d, cfg)
      [] step = "Render" -> RenderPlan(d)
      [] step = "Upload" -> UploadPlan(d, ws)
      [] step = "Retry" -> Fail("RetryNotResolved", <<>>)

\* faulty variant: the retry probes run from the earliest stage to the latest
RetryStep_m(d) ==
    IF Exists(d.extracted) THEN Some("Analyze")
    ELSE IF Exists(d.analysis) THEN Some("SetupRender")
    ELSE IF Exists(d.blender) THEN Some("SetupRender")
    ELSE IF Exists(d.render) THEN Some("Render")
    ELSE None

\* run_specific_step: the step a retry of a failed recording stands for
RetryStep(d) ==
    IF Exists(d.render) THEN Some("Render")
    ELSE IF Exists(d.blender) THEN Some("SetupRender")
    ELSE IF Exists(d.analysis) THEN Some("SetupRender")
    ELSE IF Exists(d.extracted) THEN Some("Analyze")
    ELSE None

\* run_specific_step: the step name parsed to a NextStep, or the error
ParseStep(step, status, d) ==
    LET s == ToLowercase(step)
    IN CASE s = AnalyzeName -> Ok("Step", "Analyze")
         [] s \in {SetupRenderName, SetupRenderDashName} -> Ok("Step", "SetupRender")
         [] s = RenderName -> Ok("Step", "Render")
         [] s = UploadName -> Ok("Step", "Upload")
         [] s = RetryName ->
                IF status.tag = "Failed"
                THEN IF RetryStep(d).some THEN Ok("Step", RetryStep(d).val)
                     ELSE Err("CannotDetermineRetry", <<>>)
                ELSE Err("RetryOnlyFailed", <<>>)
         [] OTHER -> Err("UnknownStep", step)

----------------------------------------------------------------------------
(* Process runner and the commands *)

\* how an external process can end: exit code (None: killed by a signal), stderr
Outcomes ==
    {[code |-> Some(0), stderr |-> ""], [code |-> Some(1), stderr |-> "boom"],
     [code |-> None, stderr |-> ""]}

\* ProcessRunner::execute_command: the ProcessResult of a finished process
execute_command(outcome) ==
    [success |-> outcome.code = Some(0), stdout |-> "", stderr |-> outcome.stderr,
     exit_code |-> outcome.code]

\* run_cinemon_render: the result returned when the generated file is missing
ConfigNotFoundResult ==
    [success |-> FALSE, stdout |-> "",
     stderr |-> "Generated config file not found", exit_code |-> Some(1)]

\* what the tools leave in the recording directory when they succeed
ToolEffect(tool, d) ==
    CASE tool = "beatrix" ->
            [d EXCEPT !.analysis = DirSub(<<FName("beats", "json")>>)]
      [] tool = "cinemon-generate-config" -> [d EXCEPT !.yaml = TRUE]
      [] tool = "cinemon-blend-setup" ->
            [d EXCEPT !.blender = DirSub(<<FName("project", "blend")>>)]
      [] tool = "medusa" ->
            [d EXCEPT !.uploads = DirSub(<<FName("upload_results", "json")>>)]

\* a process the command has just started
Started(tool, args, name) ==
    [tool |-> tool, args |-> args, name |-> name, state |-> "running",
     result |-> None]

\* the command of caller c returns val; ret keeps the processes it ran
Return(c, frame, result, val) ==
    /\ ret' = [op |-> frame.op, name |-> frame.name,
               step |-> frame.step, executed |-> frame.executed,
               seen |-> frame.seen, status |-> frame.status,
               spawn_failed |-> frame.spawn_failed,
               procs |-> procs[c], result |-> result, val |-> val]
    /\ calls' = [calls EXCEPT ![c] = IdleFrame]
    /\ procs' = [procs EXCEPT ![c] = <<>>]

\* cmd.output(): the process starts and the command awaits it, or the spawn
\* fails and the command returns the error
Spawn(c, frame, tool, args) ==
    \E spawned \in BOOLEAN :
        IF spawned
        THEN /\ procs' = [procs EXCEPT ![c] = Append(@, Started(tool, args, frame.name))]
             /\ calls' = [calls EXCEPT ![c] = [frame EXCEPT !.pc = "await"]]
             /\ ret' = NoRet
        ELSE Return(c, [frame EXCEPT !.spawn_failed = TRUE], None,
                    Err("CommandExecutionFailed", "os error"))

\* faulty variant: the captured text is left out of the message
CommandResult_m(frame, result) ==
    IF result.success THEN Ok("Completed", frame.step)
    ELSE Err("FailedToExecute", "")

\* the result of run_next_step / run_specific_step for a ProcessResult
CommandResult(frame, result) ==
    IF result.success THEN Ok("Completed", frame.step)
    ELSE Err("FailedToExecute", result.stderr)

\* run_next_step: the recording and its next step
ResolveNext(found) ==
    IF ~found.some THEN Err("NotFound", <<>>)
    ELSE IF ~get_next_step(found.val.status).some THEN Err("NoNextStep", <<>>)
    ELSE Ok("Step", get_next_step(found.val.status).val)

\* faulty variant: the step is parsed without asking can_run_step
ResolveSpecific_m(found, step, d) ==
    IF ~found.some THEN Err("NotFound", <<>>)
    ELSE ParseStep(step, found.val.status, d)

\* run_specific_step: the recording, the legality of the step and its parse
ResolveSpecific(found, step, d) ==
    IF ~found.some THEN Err("NotFound", <<>>)
    ELSE IF ~can_run_step(found.val.status, step)
    THEN Err("InvalidState", [step |-> step, status |-> found.val.status])
    ELSE ParseStep(step, found.val.status, d)

\* the enumeration order of the scan a command makes: it looks a recording up
\* by its name, which is unique, so the order does not reach its result
EnumOrder == CHOOSE o \in Orders : TRUE

\* faulty variant: a command waits while another caller has a command in
\* progress on the same recording
Begin_locked(c, op, name, step) ==
    LET found == Find(scan_recordings(config.recordings_path, root, EnumOrder), name)
        resolved == IF op = "run_next_step" THEN ResolveNext(found)
                    ELSE ResolveSpecific(found, step, root[name])
        frame == [pc |-> "idle", op |-> op, name |-> name, step |-> step,
                  spawn_failed |-> FALSE,
                  executed |-> IF resolved.ok THEN resolved.detail ELSE "none",
                  seen |-> root[name],
                  status |-> IF found.some THEN found.val.status ELSE None]
    IN /\ calls[c].pc = "idle"
       /\ \A o \in DOMAIN calls : calls[o].pc = "await" => calls[o].name # name
       /\ IF ~resolved.ok
          THEN Return(c, frame, None, resolved)
          ELSE LET plan == execute_step(root[name], resolved.detail, config, workspace)
               IN IF plan.do = "fail"
                  THEN Return(c, frame, None, plan.err)
                  ELSE Spawn(c, frame, plan.tool, plan.args)
       /\ UNCHANGED <<root, workspace, config, recording>>

\* a command from its entry to its first await or its return
Begin(c, op, name, step) ==
    LET found == Find(scan_recordings(config.recordings_path, root, EnumOrder), name)
        resolved == IF op = "run_next_step" THEN ResolveNext(found)
                    ELSE ResolveSpecific(found, step, root[name])
        frame == [pc |-> "idle", op |-> op, name |-> name, step |-> step,
                  spawn_failed |-> FALSE,
                  executed |-> IF resolved.ok THEN resolved.detail ELSE "none",
                  seen |-> root[name],
                  status |-> IF found.some THEN found.val.status ELSE None]
    IN /\ calls[c].pc = "idle"
       /\ IF ~resolved.ok
          THEN Return(c, frame, None, resolved)
          ELSE LET plan == execute_step(root[name], resolved.detail, config, workspace)
               IN IF plan.do = "fail"
                  THEN Return(c, frame, None, plan.err)
                  ELSE Spawn(c, frame, plan.tool, plan.args)
       /\ UNCHANGED <<root, workspace, config, recording>>

\* the command run_next_step(recording_name)
RunNextStep(c, name) == Begin(c, "run_next_step", name, <<>>)

\* the command run_specific_step(recording_name, step)
RunSpecificStep(c, name, step) == Begin(c, "run_specific_step", name, step)

\* faulty variant: a process that ends with success takes error.log away
ProcessExit_m(c, outcome, produced) ==
    LET p == Len(procs[c])
    IN /\ p > 0
       /\ procs[c][p].state = "running"
       /\ procs' = [procs EXCEPT ![c][p].state = "exited",
                                 ![c][p].result = Some(execute_command(outcome))]
       /\ root' = IF produced /\ outcome.code = Some(0)
                       /\ root[procs[c][p].name].kind = "dir"
                  THEN [root EXCEPT ![procs[c][p].name] =
                           [ToolEffect(procs[c][p].tool, @) EXCEPT !.errorLog = NoFile]]
                  ELSE root
       /\ ret' = NoRet
       /\ UNCHANGED <<workspace, config, recording, calls>>

\* the running external process of caller c's command ends; a successful one
\* may have left its output
ProcessExit(c, outcome, produced) ==
    LET p == Len(procs[c])
    IN /\ p > 0
       /\ procs[c][p].state = "running"
       /\ procs' = [procs EXCEPT ![c][p].state = "exited",
                                 ![c][p].result = Some(execute_command(outcome))]
       /\ root' = IF produced /\ outcome.code = Some(0)
                       /\ root[procs[c][p].name].kind = "dir"
                  THEN [root EXCEPT ![procs[c][p].name] = ToolEffect(procs[c][p].tool, @)]
                  ELSE root
       /\ ret' = NoRet
       /\ UNCHANGED <<workspace, config, recording, calls>>

\* faulty variant: the generated file is not looked for
AfterGenerateConfig_m(config_result, d) ==
    IF ~config_result.success THEN "return" ELSE "setup"

\* run_cinemon_render after the config generator ended: "return" its result,
\* "missing" when the generated file is not there, else "setup"
AfterGenerateConfig(config_result, d) ==
    IF ~config_result.success THEN "return"
    ELSE IF ~d.yaml THEN "missing"
    ELSE "setup"

\* the command of caller c continues after the process it awaited ended
Resume(c) ==
    /\ calls[c].pc = "await"
    /\ procs[c][Len(procs[c])].state = "exited"
    /\ LET frame == [calls[c] EXCEPT !.pc = "idle"]
           p == procs[c][Len(procs[c])]
           result == p.result.val
       IN IF p.tool = "cinemon-generate-config"
          THEN LET next == AfterGenerateConfig(result, root[frame.name])
               IN CASE next = "return" ->
                         Return(c, frame, Some(result), CommandResult(frame, result))
                    [] next = "missing" ->
                         Return(c, frame, Some(ConfigNotFoundResult),
                                CommandResult(frame, ConfigNotFoundResult))
                    [] next = "setup" ->
                         Spawn(c, frame, "cinemon-blend-setup",
                               [config |-> "animation_config_" \o p.args.preset \o ".yaml"])
          ELSE Return(c, frame, Some(result), CommandResult(frame, result))
    /\ UNCHANGED <<root, workspace, config, recording>>

----------------------------------------------------------------------------
(* The commands on recordings in every stage of the pipeline *)

AudioSamples ==
    {NoSub, FileSub, DirSub(<<>>), DirSub(<<FName("x", "m4a")>>),
     DirSub(<<FName("notes", "txt"), FName("x", "wav")>>),
     DirSub(<<FName("notes", "txt"), FName("y", "m4a"), FName("x", "m4a")>>)}

\* blender/ and blender/render/
BlenderSamples ==
    {<<NoSub, NoSub>>, <<DirSub(<<>>), NoSub>>,
     <<DirSub(<<FName("project", "blend")>>), NoSub>>,
     <<DirSub(<<FName("project", "blend")>>), DirSub(<<>>)>>,
     <<DirSub(<<>>),
       DirSub(<<FName("out", "avi"), FName("b", "mp4"), FName("a", "mp4")>>)>>,
     <<DirSub(<<FName("project", "blend")>>), DirSub(<<FName("out", "mkv")>>)>>}

StepDirs ==
    {[BareDir("rec") EXCEPT !.errorLog = el, !.extracted = ex, !.analysis = an,
                            !.blender = br[1], !.render = br[2], !.uploads = up,
                            !.yaml = ym] :
        el \in {NoFile, TextFile(<<"a">>)},
        ex \in AudioSamples,
        an \in {NoSub, DirSub(<<>>), DirSub(<<FName("beats", "json")>>)},
        br \in BlenderSamples,
        up \in {NoSub, DirSub(<<FName("upload_results", "json")>>)},
        ym \in BOOLEAN}

AudioSettings == {NoAudio, FName("x", "m4a"), FName("z", "m4a")}

\* what only some steps read is drawn where they read it: the main audio file
\* with several audio files, the upload configuration with a rendered .mp4, the
\* generated file with an analysis directory.  A recording without an error
\* marker is drawn as the pipeline leaves it (a blender project after an
\* analysis, upload results after a rendered video); one with an error marker in
\* every combination of its directories, without upload results
Drawn(d, ws, cfg) ==
    /\ cfg.main_audio_file # NoAudio => Len(FilterExt(Entries(d.extracted), "m4a")) > 1
    /\ ~ws.medusaConfig => HasExt(d.render, {"mp4"})
    /\ d.yaml => Exists(d.analysis)
    /\ Exists(d.uploads) => ~d.errorLog.exists /\ has_rendered_video(d)
    /\ (~d.errorLog.exists /\ Exists(d.blender)) => has_analysis_files(d)

Init ==
    /\ \E d \in StepDirs, b \in BOOLEAN, f \in AudioSettings :
          /\ Drawn(d, [medusaConfig |-> b], [main_audio_file |-> f])
          /\ root = [n \in Names |-> IF n = "rec" THEN d ELSE NoEntry]
          /\ workspace = [medusaConfig |-> b]
          /\ config = [recordings_path |-> "dir", main_audio_file |-> f]
    /\ recording = [name |-> "rec", status |-> Recorded, file_sizes |-> {}]
    /\ calls = [c \in Callers |-> IdleFrame]
    /\ procs = [c \in Callers |-> <<>>]
    /\ ret = NoRet

\* the step names a caller passes to run_specific_step
CommandSteps ==
    {ExtractName, AnalyzeName, SetupRenderName, SetupRenderDashName, RenderName,
     UploadName, RetryName, <<"p","u","b","l","i","s","h">>}

\* one caller, who invokes a command when the one before has returned
Sequential == {"ui1"}

Next ==
    \/ \E c \in Sequential, n \in Names : RunNextStep(c, n)
    \/ \E c \in Sequential, n \in Names, step \in CommandSteps :
          \* an absent recording is asked for with one step name
          /\ root[n].kind = "none" => step = AnalyzeName
          /\ RunSpecificStep(c, n, step)
    \/ \E c \in Sequential, o \in Outcomes, produced \in BOOLEAN :
          ProcessExit(c, o, produced)
    \/ \E c \in Sequential : Resume(c)

Spec == Init /\ [][Next]_vars

----------------------------------------------------------------------------
(* Claims on the commands and the step executor (under Spec) *)

\* a command has just returned
Returned == ret.op \in {"run_next_step", "run_specific_step"}

\* the documented retry probes, stated on the directory: "none" when no probe hits
RetryTarget(d) ==
    IF d.render.kind # "none" THEN "Render"
    ELSE IF d.blender.kind # "none" THEN "SetupRender"
    ELSE IF d.analysis.kind # "none" THEN "SetupRender"
    ELSE IF d.extracted.kind # "none" THEN "Analyze"
    ELSE "none"

\* C5: a retry of a Failed recording probes blender/render/ -> Render, else
\* blender/ -> SetupRender, else analysis/ -> SetupRender, else extracted/ ->
\* Analyze, else fails with "cannot determine retry step" and executes no step.
C5_RetryResolution ==
    (ret.op = "run_specific_step" /\ ret.step = RetryName /\ ret.status # None
        /\ ret.status.tag = "Failed")
        => /\ ret.executed = RetryTarget(ret.seen)
           /\ RetryTarget(ret.seen) = "none"
                 => /\ ret.val = Err("CannotDetermineRetry", <<>>)
                    /\ ret.procs = <<>>

\* a failed recording with both analysis/ and blender/render/ was retried as Render
C5_Witness ==
    /\ ret.op = "run_specific_step"
    /\ ret.step = RetryName
    /\ ret.status # None
    /\ ret.status.tag = "Failed"
    /\ Exists(ret.seen.analysis)
    /\ Exists(ret.seen.render)
    /\ ret.executed = "Render"

\* C6: execute_step called with Retry always returns an error and spawns no
\* external process.
C6_RetryNeverExecuted ==
    /\ \A c \in Callers : calls[c].pc = "await" => calls[c].executed # "Retry"
    /\ (Returned /\ ret.executed = "Retry")
          => /\ ret.val = Err("RetryNotResolved", <<>>)
             /\ ret.procs = <<>>
             /\ ret.result = None

\* the executor was handed Retry: the next step of a failed recording
C6_Witness ==
    /\ ret.op = "run_next_step"
    /\ ret.executed = "Retry"
    /\ ret.status.tag = "Failed"
    /\ ~ret.val.ok

HasNoExt(sub, ext) ==
    ~\E i \in 1..Len(sub.files) : sub.kind = "dir" /\ sub.files[i].ext = ext

\* the filesystem prerequisite of a step is not met by directory d
Unmet(step, d, ws) ==
    CASE step = "Analyze" -> d.extracted.kind = "none" \/ HasNoExt(d.extracted, "m4a")
      [] step = "SetupRender" -> d.analysis.kind = "none"
      [] step = "Render" -> d.blender.kind = "none" \/ HasNoExt(d.blender, "blend")
      [] step = "Upload" ->
            d.render.kind = "none" \/ HasNoExt(d.render, "mp4") \/ ~ws.medusaConfig
      [] OTHER -> FALSE

\* the errors execute_step returns for a missing prerequisite
PrerequisiteErrors ==
    {"ExtractedDirNotFound", "NoAudioFile", "AnalysisDirNotFound",
     "BlenderProjectNotFound", "NoBlendFile", "RenderDirNotFound", "NoVideoFile",
     "MedusaConfigNotFound", "ReadDirFailed"}

\* C7: when the filesystem prerequisite of a step is not met, execute_step
\* returns an error at once and no external process was spawned in that call.
C7_PrerequisiteFailsWithoutSpawn ==
    /\ \A c \in Callers :
          calls[c].pc = "await" => ~Unmet(calls[c].executed, calls[c].seen, workspace)
    /\ (Returned /\ Unmet(ret.executed, ret.seen, workspace))
          => /\ ~ret.val.ok
             /\ ret.val.kind \in PrerequisiteErrors
             /\ ret.procs = <<>>
             /\ ret.result = None

\* an upload found its rendered .mp4 but not the upload configuration
C7_Witness ==
    /\ Returned
    /\ ret.executed = "Upload"
    /\ ~HasNoExt(ret.seen.render, "mp4")
    /\ ~workspace.medusaConfig
    /\ ret.val.kind = "MedusaConfigNotFound"
    /\ ret.procs = <<>>

\* the process lists of the commands in progress and of the one that returned
ProcessLists ==
    {procs[c] : c \in Callers} \cup (IF Returned THEN {ret.procs} ELSE {})

\* C8: the project setup (b) is spawned only after the config generation (a)
\* exited with success and animation_config_<preset>.yaml exists; if (a)
\* fails its result is returned unchanged, if the file is absent a failed
\* result is returned, (b) is not spawned in either case, and the two never
\* run at the same time.  Nothing under Spec removes the generated file.
C8_SetupRenderSequence ==
    /\ \A l \in ProcessLists : \A i \in 1..Len(l) :
          /\ i < Len(l) => l[i].state = "exited"
          /\ l[i].tool = "cinemon-blend-setup"
                => /\ i = 2
                   /\ l[1].tool = "cinemon-generate-config"
                   /\ l[1].state = "exited"
                   /\ l[1].result.val.success
                   /\ root[l[1].name].yaml
    /\ (Returned /\ ret.procs # <<>> /\ ret.procs[1].tool = "cinemon-generate-config")
          => /\ ~ret.procs[1].result.val.success
                => ret.procs = <<ret.procs[1]>> /\ ret.result = ret.procs[1].result
             /\ (ret.procs[1].result.val.success /\ ~root[ret.name].yaml)
                => /\ ret.procs = <<ret.procs[1]>>
                   /\ ret.result # None
                   /\ ~ret.result.val.success
                   /\ ~ret.val.ok

\* the project setup is running after the config generation succeeded
C8_Witness ==
    \E c \in Callers :
        /\ Len(procs[c]) = 2
        /\ procs[c][1].result.val.success
        /\ procs[c][2].tool = "cinemon-blend-setup"
        /\ procs[c][2].state = "running"

\* the .m4a files of a directory, in the order they are listed
AudioOf(sub) == SelectSeq(sub.files, LAMBDA f : f.ext = "m4a")

\* several audio files and a main-audio setting that names none of them
Ambiguous(d, cfg) ==
    /\ d.extracted.kind = "dir"
    /\ Len(AudioOf(d.extracted)) > 1
    /\ \/ cfg.main_audio_file = NoAudio
       \/ \A i \in 1..Len(AudioOf(d.extracted)) :
             AudioOf(d.extracted)[i] # cfg.main_audio_file

HasBlend(d) ==
    d.blender.kind = "dir"
        /\ \E i \in 1..Len(d.blender.files) : d.blender.files[i].ext = "blend"

\* C12: the Render step never spawns a process: with a .blend file in blender/
\* it returns the fixed "render manually" outcome, otherwise a prerequisite
\* error; run_next_step on a SetupRendered recording never changes the
\* directory and never reports success.
C12_RenderNeverSpawns ==
    /\ \A c \in Callers : calls[c].pc = "await" => calls[c].executed # "Render"
    /\ (Returned /\ ret.executed = "Render")
          => /\ ret.procs = <<>>
             /\ ret.result = None
             /\ ~ret.spawn_failed
             /\ IF HasBlend(ret.seen)
                THEN ret.val = Err("ManualRenderRequired", <<>>)
                ELSE ~ret.val.ok /\ ret.val.kind \in PrerequisiteErrors
    /\ (Returned /\ ret.op = "run_next_step" /\ ret.status = SetupRendered)
          => /\ ~ret.val.ok
             /\ ret.executed = "Render"
             /\ root[ret.name] = ret.seen

\* run_next_step on a SetupRendered recording returned "render manually"
C12_Witness ==
    /\ ret.op = "run_next_step"
    /\ ret.status = SetupRendered
    /\ ret.val = Err("ManualRenderRequired", <<>>)
    /\ ret.procs = <<>>

\* the first .mp4 of a directory, in the order it is listed
FirstMp4(sub) ==
    sub.files[CHOOSE i \in 1..Len(sub.files) :
                 /\ sub.files[i].ext = "mp4"
                 /\ \A j \in 1..(i - 1) : sub.files[j].ext # "mp4"]

UploadReady(d, ws) ==
    /\ d.render.kind = "dir"
    /\ \E i \in 1..Len(d.render.files) : d.render.files[i].ext = "mp4"
    /\ ws.medusaConfig

\* the upload tool was started by a call that saw directory d
UploadStartedWell(l, d) ==
    (l # <<>> /\ l[1].tool = "medusa")
        => /\ UploadReady(d, workspace)
           /\ Len(l) = 1
           /\ l[1].args = [video |-> FirstMp4(d.render),
                           config |-> "config_example.json"]

\* C13: the Upload step spawns the upload tool only when blender/render/ exists,
\* holds a .mp4 file and the fixed configuration file exists; the tool gets the
\* first matching .mp4 and that configuration path; without the configuration
\* file the call fails and nothing is spawned.
C13_UploadPrerequisites ==
    /\ \A c \in Callers : calls[c].pc = "await" => UploadStartedWell(procs[c], calls[c].seen)
    /\ Returned => UploadStartedWell(ret.procs, ret.seen)
    /\ (Returned /\ ret.executed = "Upload" /\ ret.spawn_failed)
          => UploadReady(ret.seen, workspace)
    /\ (Returned /\ ret.executed = "Upload" /\ ~workspace.medusaConfig)
          => ~ret.val.ok /\ ret.procs = <<>> /\ ~ret.spawn_failed

\* the upload tool runs on b.mp4, the first .mp4 listed after out.avi
C13_Witness ==
    \E c \in Callers :
        /\ calls[c].pc = "await"
        /\ calls[c].executed = "Upload"
        /\ procs[c][1].tool = "medusa"
        /\ procs[c][1].state = "running"
        /\ procs[c][1].args.video = FName("b", "mp4")
        /\ Len(SelectSeq(calls[c].seen.render.files, LAMBDA f : f.ext = "mp4")) > 1

\* C14: a request for the Extract step always fails with the fixed "use the
\* extraction tool" error and spawns no process, from run_next_step on a
\* Recorded recording and from run_specific_step with the name extract on a
\* recording for which can_run_step("extract") holds.
C14_ExtractAlwaysFixedError ==
    (Returned /\ ret.status # None
        /\ \/ ret.op = "run_next_step" /\ ret.status = Recorded
           \/ /\ ret.op = "run_specific_step"
              /\ ret.step = ExtractName
              /\ ret.status.tag \in {"Recorded", "Failed"})
        => /\ ret.val = Err("ExtractNotImplemented", <<>>)
           /\ ret.procs = <<>>

\* the command returned because its last process did not succeed
ToolFailed ==
    /\ Returned
    /\ ret.procs # <<>>
    /\ ret.procs[Len(ret.procs)].state = "exited"
    /\ ~ret.procs[Len(ret.procs)].result.val.success

C17_ResultOfRealProcess ==
    /\ \A l \in ProcessLists : \A i \in 1..Len(l) :
          l[i].result # None
              => (l[i].result.val.success <=> l[i].result.val.exit_code = Some(0))
    /\ (Returned /\ ret.result # None)
          => /\ ret.result.val.success <=> ret.result.val.exit_code = Some(0)
             /\ \E i \in 1..Len(ret.procs) : ret.procs[i].result = ret.result

----------------------------------------------------------------------------
(* The scanner and the validation on a recordings directory of three entries *)

ScanNames == Names \cup {"old"}

\* modification times, one of them before the epoch
Times == (-1)..MaxTime

\* a plain file in the recordings directory
FileEntry == [NoEntry EXCEPT !.kind = "file", !.mtime = 1]

\* directories that are recordings and directories that are not
ScanDirs ==
    {[BareDir("rec") EXCEPT !.top = <<>>],
     [BareDir("rec") EXCEPT !.top = <<FName("clip", "avi")>>],
     [BareDir("rec") EXCEPT !.top = <<FName("notes", "txt"), FName("clip", "mkv")>>],
     [BareDir("rec") EXCEPT !.top = <<>>, !.extracted = DirSub(<<>>)],
     [BareDir("rec") EXCEPT !.top = <<>>, !.extracted = FileSub],
     [BareDir("rec") EXCEPT !.errorLog = TextFile(<<"a">>)]}

ScanEntries ==
    {NoEntry, FileEntry} \cup ScanDirs
        \cup {[BareDir("rec") EXCEPT !.mtime = t] : t \in Times}

\* the orders in which read_dir may enumerate the three entries
ScanOrders == {o \in [1..Cardinality(ScanNames) -> ScanNames] :
                  \A i, j \in 1..Cardinality(ScanNames) : i # j => o[i] # o[j]}

\* FileScanner::scan_recordings(&config.recordings_path), read_dir listing the
\* entries in `order`
ScanRecordings(order) ==
    /\ ret' = [op |-> "scan_recordings", order |-> order,
               val |-> scan_recordings(config.recordings_path, root, order)]
    /\ UNCHANGED <<root, workspace, config, recording, calls, procs>>

\* StatusDetector::validate_recording_structure(recordings_path/name)
ValidateRecordingStructure(name) ==
    /\ ret' = [op |-> "validate_recording_structure", name |-> name,
               val |-> validate_recording_structure(root[name])]
    /\ UNCHANGED <<root, workspace, config, recording, calls, procs>>

\* nothing lies under a recordings path that is absent or names a file
InitScan ==
    /\ \E k \in {"none", "file", "dir", "unlistable"}, r \in [ScanNames -> ScanEntries] :
          /\ k \in {"none", "file"} => \A n \in ScanNames : r[n] = NoEntry
          /\ root = r
          /\ config = [recordings_path |-> k, main_audio_file |-> NoAudio]
    /\ workspace = [medusaConfig |-> TRUE]
    /\ recording = [name |-> "rec", status |-> Recorded, file_sizes |-> {}]
    /\ calls = [c \in Callers |-> IdleFrame]
    /\ procs = [c \in Callers |-> <<>>]
    /\ ret = NoRet

NextScan ==
    \/ \E order \in ScanOrders : ScanRecordings(order)
    \/ \E n \in ScanNames : ValidateRecordingStructure(n)

SpecScan == InitScan /\ [][NextScan]_vars

----------------------------------------------------------------------------
(* Claims on the scanner and the validation (under SpecScan) *)

Scanned == ret.op = "scan_recordings"

\* the entries a scan is to return: the directories that pass the validation
\* and of which a Recording can be constructed
Listed(r) ==
    {n \in DOMAIN r : r[n].kind = "dir" /\ validate_recording_structure(r[n]) = "ok"
                         /\ r[n].mtime >= 0}

\* the result holds exactly one Recording for each name of ns, named after the
\* directory and carrying its detected status
ExactlyOneEach(val, ns) ==
    /\ Len(val) = Cardinality(ns)
    /\ \A n \in ns : \E i \in 1..Len(val) :
          val[i].name = n /\ val[i].status = detect_status(root[n])
    /\ \A i \in 1..Len(val) : val[i].name \in ns

\* C18 as stated: scan returns the empty list when the root does not exist or
\* is not a directory, and otherwise exactly one Recording for each immediate
\* subdirectory that passes validate_recording_structure, dropping every other
\* entry and every entry whose construction fails.
C18_ScanExactlyValid ==
    Scanned => IF config.recordings_path \in {"none", "file"} THEN ret.val = <<>>
               ELSE ExactlyOneEach(ret.val, Listed(root))

\* C18 (amended): scan returns the empty list when the root does not exist, is
\* not a directory or cannot be listed, and otherwise exactly one Recording for
\* each immediate subdirectory that passes validate_recording_structure and of
\* which a Recording can be constructed.
C18_ScanValidListed ==
    Scanned => IF config.recordings_path # "dir" THEN ret.val = <<>>
               ELSE ExactlyOneEach(ret.val, Listed(root))

\* a scan returned two recordings and dropped a plain file
C18_Witness ==
    /\ Scanned
    /\ Len(ret.val) = 2
    /\ \E n \in ScanNames : root[n].kind = "file"

\* C19: validate_recording_structure accepts a path exactly when it is an
\* existing directory with a top-level .mkv or .mp4 file or with an extracted/
\* subdirectory; it fails with NotFound for an absent path, NotADirectory for
\* what is not a directory, NotARecording otherwise, tested in that order.
C19_ValidateExact ==
    ret.op = "validate_recording_structure"
        => LET d == root[ret.name]
           IN ret.val =
                 IF d.kind = "none" THEN "NotFound"
                 ELSE IF d.kind # "dir" THEN "NotADirectory"
                 ELSE IF \/ \E i \in 1..Len(d.top) : d.top[i].ext \in {"mkv", "mp4"}
                         \/ d.extracted.kind = "dir"
                 THEN "ok"
                 ELSE "NotARecording"

\* C20: when the recordings have pairwise distinct modification times, scan
\* returns them most recently modified first: of every adjacent pair the first
\* was modified strictly later than the second.
C20_SortedByMtimeDesc ==
    (Scanned /\ \A i, j \in 1..Len(ret.val) :
                   i # j => root[ret.val[i].name].mtime # root[ret.val[j].name].mtime)
        => \A i \in 1..(Len(ret.val) - 1) :
              root[ret.val[i].name].mtime > root[ret.val[i + 1].name].mtime

----------------------------------------------------------------------------
(* Status queries between the commands, on a directory the tools change *)

\* update_recording_status(&mut recording) on the Recording the caller holds
UpdateRecordingStatus ==
    /\ recording' = update_recording_status(recording, root[recording.name])
    /\ ret' = [op |-> "update_recording_status", before |-> recording]
    /\ UNCHANGED <<root, workspace, config, calls, procs>>

\* a recording at the start of the pipeline, one that failed, one to upload
FreshDirs ==
    {[BareDir("rec") EXCEPT !.extracted = DirSub(<<FName("x", "m4a")>>)],
     [BareDir("rec") EXCEPT !.extracted = DirSub(<<FName("x", "m4a")>>),
                            !.errorLog = TextFile(<<"a">>)],
     [BareDir("rec") EXCEPT !.blender = DirSub(<<FName("project", "blend")>>),
                            !.render = DirSub(<<FName("out", "mp4")>>)]}

\* what the Recording held by the caller may say from an earlier look
StaleRecordings ==
    {[name |-> "rec", status |-> s, file_sizes |-> f] :
        s \in {Recorded, Uploaded, Failed(<<"a">>)},
        f \in {{}, {SizeEntry(InDir("uploads", FName("upload_results", "json")), 0)}}}

InitFresh ==
    /\ \E d \in FreshDirs : root = [n \in Names |-> IF n = "rec" THEN d ELSE NoEntry]
    /\ recording \in StaleRecordings
    /\ workspace = [medusaConfig |-> TRUE]
    /\ config = [recordings_path |-> "dir", main_audio_file |-> NoAudio]
    /\ calls = [c \in Callers |-> IdleFrame]
    /\ procs = [c \in Callers |-> <<>>]
    /\ ret = NoRet

NextFresh ==
    \/ \E n \in Names : DetectStatus(n)
    \/ UpdateRecordingStatus
    \/ \E c \in Sequential : RunNextStep(c, "rec")
    \/ \E c \in Sequential : RunSpecificStep(c, "rec", RetryName)
    \/ \E c \in Sequential, o \in Outcomes, produced \in BOOLEAN :
          ProcessExit(c, o, produced)
    \/ \E c \in Sequential : Resume(c)

SpecFresh == InitFresh /\ [][NextFresh]_vars

----------------------------------------------------------------------------
(* Claims on the freshness of the status (under SpecFresh) *)

\* what update_recording_status leaves and what the commands decide on is the
\* status of the directory as it is at the call
StatusIsFresh ==
    /\ ret.op = "update_recording_status"
          => /\ recording.status = detect_status(root[recording.name])
             /\ recording.file_sizes = get_file_info(root[recording.name])
    /\ \A c \in Callers :
          calls[c].pc = "await" => calls[c].status = detect_status(calls[c].seen)
    /\ (Returned /\ ret.status # None)
          => /\ ret.status = detect_status(ret.seen)
             /\ (ret.op = "run_next_step" /\ ret.executed # "none")
                   => Some(ret.executed) = get_next_step(detect_status(ret.seen))

\* two detect_status calls in a row on an unchanged directory agree
DetectAgain ==
    (ret.op = "detect_status" /\ ret'.op = "detect_status" /\ ret'.name = ret.name
        /\ root' = root)
        => ret'.val = ret.val

\* C15: status is never cached: detect_status twice on an unchanged directory
\* yields the same result; update_recording_status overwrites the status and
\* file_sizes the Recording held with detect_status / get_file_info of the
\* current directory; run_next_step and run_specific_step decide on the status
\* of a scan made inside the same call.
C15_StatusNeverCached == [](StatusIsFresh) /\ [][DetectAgain]_vars

\* the held Recording said Extracted, the analysis ran, the update says Analyzed
C15_Witness ==
    /\ ret.op = "update_recording_status"
    /\ ret.before.status = Extracted
    /\ recording.status = Analyzed
    /\ recording.file_sizes # ret.before.file_sizes

----------------------------------------------------------------------------
(* FileScanner::filter_by_status and get_recordings_needing_attention *)

RecordedLabel == <<"r","e","c","o","r","d","e","d">>
ExtractedLabel == <<"e","x","t","r","a","c","t","e","d">>
AnalyzedLabel == <<"a","n","a","l","y","z","e","d">>
SetupRenderedLabel == <<"s","e","t","u","p","r","e","n","d","e","r","e","d">>
RenderedLabel == <<"r","e","n","d","e","r","e","d">>
UploadedLabel == <<"u","p","l","o","a","d","e","d">>
FailedLabel == <<"f","a","i","l","e","d">>

\* filter_by_status: the arms of the match on status_filter.to_lowercase()
filter_by_status(recordings, status_filter) ==
    LET label == ToLowercase(status_filter)
        keep(r) ==
            CASE label = RecordedLabel -> r.status.tag = "Recorded"
              [] label = ExtractedLabel -> r.status.tag = "Extracted"
              [] label = AnalyzedLabel -> r.status.tag = "Analyzed"
              [] label = RenderedLabel -> r.status.tag = "Rendered"
              [] label = UploadedLabel -> r.status.tag = "Uploaded"
              [] label = FailedLabel -> r.status.tag = "Failed"
              [] OTHER -> TRUE
    IN  SelectSeq(recordings, keep)

\* get_recordings_needing_attention: the statuses its matches! lists
get_recordings_needing_attention(recordings) ==
    LET keep(r) == r.status.tag \in {"Failed", "Recorded", "Extracted", "Analyzed",
                                     "Rendered"}
    IN  SelectSeq(recordings, keep)

FilterByStatus(recordings, status_filter) ==
    /\ ret' = [op |-> "filter_by_status", recordings |-> recordings,
               status_filter |-> status_filter,
               val |-> filter_by_status(recordings, status_filter)]
    /\ UNCHANGED <<root, workspace, config, recording, calls, procs>>

GetRecordingsNeedingAttention(recordings) ==
    /\ ret' = [op |-> "get_recordings_needing_attention", recordings |-> recordings,
               val |-> get_recordings_needing_attention(recordings)]
    /\ UNCHANGED <<root, workspace, config, recording, calls, procs>>

----------------------------------------------------------------------------
(* Inputs of the filters: lists of recordings of every status, and labels *)

MaxRecs == 2

ListNames == <<"rec", "alt", "old">>

FilterStatuses ==
    {Recorded, Extracted, Analyzed, SetupRendered, Rendered, Uploaded,
     Failed(<<>>), Failed(<<"a">>)}

\* the lists a scan can return: Recordings as from_path and
\* update_recording_status build them
RecordingLists ==
    UNION {{[i \in 1..n |-> [name |-> ListNames[i], status |-> f[i],
                             last_updated |-> 0, file_sizes |-> {}]] :
            f \in [1..n -> FilterStatuses]} : n \in 0..MaxRecs}

\* the seven discriminants in lower case and in other spellings, and labels
\* that name none
Labels ==
    {RecordedLabel, ExtractedLabel, AnalyzedLabel, SetupRenderedLabel,
     RenderedLabel, UploadedLabel, FailedLabel,
     <<"R","e","c","o","r","d","e","d">>, <<"F","A","I","L","E","D">>,
     <<"S","e","t","u","p","R","e","n","d","e","r","e","d">>,
     <<"U","p","l","o","a","d","e","d">>,
     <<"a","l","l">>, <<"d","o","n","e">>, <<>>}

InitFilter ==
    /\ root = [n \in Names |-> NoEntry]
    /\ workspace = [medusaConfig |-> TRUE]
    /\ config = [recordings_path |-> "dir", main_audio_file |-> NoAudio]
    /\ recording = [name |-> "rec", status |-> Recorded, file_sizes |-> {}]
    /\ calls = [c \in Callers |-> IdleFrame]
    /\ procs = [c \in Callers |-> <<>>]
    /\ ret = NoRet

NextFilter ==
    \/ \E rs \in RecordingLists, label \in Labels : FilterByStatus(rs, label)
    \/ \E rs \in RecordingLists : GetRecordingsNeedingAttention(rs)

SpecFilter == InitFilter /\ [][NextFilter]_vars

----------------------------------------------------------------------------
(* Claims about the filters *)

Filtered == ret.op = "filter_by_status"

\* the discriminant a label names, "" when it names none
Discriminant(label) ==
    LET l == ToLowercase(label)
    IN  CASE l = RecordedLabel -> "Recorded"
          [] l = ExtractedLabel -> "Extracted"
          [] l = AnalyzedLabel -> "Analyzed"
          [] l = SetupRenderedLabel -> "SetupRendered"
          [] l = RenderedLabel -> "Rendered"
          [] l = UploadedLabel -> "Uploaded"
          [] l = FailedLabel -> "Failed"
          [] OTHER -> ""

WithTag(recordings, tags) ==
    LET keep(r) == r.status.tag \in tags
    IN  SelectSeq(recordings, keep)

\* C21: filter_by_status with a label that names one of the seven
\* discriminants, in any letter case, returns exactly the recordings of that
\* status, and with a label that names none it returns its input
C21_FilterByDiscriminant ==
    Filtered =>
        ret.val = IF Discriminant(ret.status_filter) = "" THEN ret.recordings
                  ELSE WithTag(ret.recordings, {Discriminant(ret.status_filter)})

\* C22: get_recordings_needing_attention returns exactly the recordings whose
\* status is not Uploaded
C22_AttentionIsNotUploaded ==
    ret.op = "get_recordings_needing_attention" =>
        ret.val = WithTag(ret.recordings,
                          {"Failed", "Recorded", "Extracted", "Analyzed",
                           "SetupRendered", "Rendered"})

----------------------------------------------------------------------------
(* StatusDetector::get_file_info on directories the walk can and cannot read *)

\* StatusDetector::get_file_info(path) called on recordings_path/name
GetFileInfo(name) ==
    /\ ret' = [op |-> "get_file_info", name |-> name,
               val |-> get_file_info(root[name])]
    /\ UNCHANGED <<root, workspace, config, recording, calls, procs>>

\* blender/ and blender/render/ together: render/ lies inside blender/
RenderSamples ==
    {<<NoSub, NoSub>>,
     <<DirSub(<<FName("project", "blend")>>), NoSub>>,
     <<DirSub(<<FName("project", "blend")>>), DirSub(<<FName("out", "mp4")>>)>>,
     <<DirSub(<<FName("project", "blend")>>), LockedSub>>}

\* recording directories with files at every depth, with empty and non-empty
\* markers, and with subdirectories that cannot be listed
InfoDirs ==
    {[BareDir("rec") EXCEPT !.top = top, !.errorLog = log, !.failed = marker,
                            !.extracted = ex, !.analysis = an, !.blender = br[1],
                            !.render = br[2], !.uploads = up] :
        top \in {<<>>, <<FName("rec", "mp4")>>},
        log \in {NoFile, TextFile(<<>>), TextFile(<<"a", "\n">>)},
        marker \in {NoFile, TextFile(<<"a">>)},
        ex \in {NoSub, FileSub, DirSub(<<FName("x", "m4a")>>), LockedSub},
        an \in {NoSub, DirSub(<<FName("x", "json")>>), LockedSub},
        br \in RenderSamples,
        up \in {NoSub, DirSub(<<FName("upload_results", "json")>>)}}

InitInfo ==
    /\ \E d \in InfoDirs : root = [n \in Names |-> IF n = "rec" THEN d ELSE NoEntry]
    /\ recording \in StaleRecordings
    /\ workspace = [medusaConfig |-> TRUE]
    /\ config = [recordings_path |-> "dir", main_audio_file |-> NoAudio]
    /\ calls = [c \in Callers |-> IdleFrame]
    /\ procs = [c \in Callers |-> <<>>]
    /\ ret = NoRet

NextInfo ==
    \/ \E n \in Names : GetFileInfo(n)
    \/ UpdateRecordingStatus

SpecInfo == InitInfo /\ [][NextInfo]_vars

----------------------------------------------------------------------------
(* Claims about get_file_info *)

\* the directories of a recording directory, by their path relative to it
\* ("" is the recording directory itself)
SubAt(d, dir) ==
    CASE dir = "" -> DirSub(d.top)
      [] dir = "extracted" -> d.extracted
      [] dir = "analysis" -> d.analysis
      [] dir = "blender" -> d.blender
      [] dir = "blender/render" -> d.render
      [] dir = "uploads" -> d.uploads

SubPaths == {"", "extracted", "analysis", "blender", "blender/render", "uploads"}

\* the text files of a recording directory and their content
TextAt(d, f) ==
    CASE f = FName("error", "log") -> d.errorLog
      [] f = FName("", "failed") -> d.failed
      [] OTHER -> NoFile

\* path names a regular file of the directory d
IsRegularFile(d, path) ==
    \/ Contains(SubAt(d, path.dir).files, path.file)
    \/ path.dir = "" /\ TextAt(d, path.file).exists
    \/ path.dir = "" /\ path.file.ext = "" /\ path.file.stem \in SubPaths \ {""}
          /\ SubAt(d, path.file.stem).kind = "file"

\* every path the directories of InfoDirs can hold a file or a directory at
PathsOf(d) ==
    UNION {{InDir(dir, f) :
                f \in {SubAt(d, dir).files[i] : i \in 1..Len(SubAt(d, dir).files)}
                       \cup {FName("error", "log"), FName("", "failed")}
                       \cup {FName(n, "") : n \in SubPaths}} : dir \in SubPaths}

\* C23: a walk failure on one entry is skipped: the regular files the walk can
\* reach are in the map get_file_info returns, also when a subdirectory of
\* the same recording directory cannot be walked
C23_WalkFailureSkipped ==
    (ret.op = "get_file_info" /\ root[ret.name].kind = "dir")
        => \A p \in PathsOf(root[ret.name]) :
              IsRegularFile(root[ret.name], p) => \E e \in ret.val : e.path = p

----------------------------------------------------------------------------
(* rename_recording and delete_recording *)

\* the names a command can be given: those of the entries and the empty string
CommandNames == Names \cup {""}

\* what recordings_path.join(name) names; joining the empty string gives the
\* recordings directory itself
Joined(r, root_kind, name) ==
    IF name = "" THEN [NoEntry EXCEPT !.kind = IF root_kind = "unlistable" THEN "dir"
                                                ELSE root_kind]
    ELSE IF root_kind \in {"dir", "unlistable"} THEN r[name]
    ELSE NoEntry

\* fs::rename(from, to) on two files of one directory: a file that is at `to`
\* is replaced
RenameFile(files, from, to) ==
    LET kept == SelectSeq(files, LAMBDA f : f # to)
    IN  [i \in 1..Len(kept) |-> IF kept[i] = from THEN to ELSE kept[i]]

\* rename_main_recording_file on the files of new_dir; file_ok says whether
\* fs::rename succeeds when it is called
rename_main_recording_file(files, old_name, new_name, file_ok) ==
    IF Contains(files, FName(old_name, "mkv"))
    THEN IF file_ok
         THEN [ok |-> TRUE,
               files |-> RenameFile(files, FName(old_name, "mkv"), FName(new_name, "mkv"))]
         ELSE [ok |-> FALSE, files |-> files]
    ELSE [ok |-> TRUE, files |-> files]

\* the outcome of a command on the recordings directory: its result, the
\* directory after it, and the fs calls that failed
Outcome(result, r, failed) == [result |-> result, root |-> r, failed |-> failed]

\* fs::rename(old_dir, new_dir)
MoveDir(r, from, to) == [r EXCEPT ![from] = NoEntry, ![to] = r[from]]

\* faulty variant: the directory stays under the new name when the file
\* cannot be renamed
rename_recording_impl_m(old_name, new_name, r, root_kind, io) ==
    IF old_name = "" THEN Outcome(Err("EmptyName", <<>>), r, {})
    ELSE IF new_name = "" THEN Outcome(Err("EmptyNewName", <<>>), r, {})
    ELSE IF old_name = new_name THEN Outcome(Err("SameName", <<>>), r, {})
    ELSE IF ~Exists(Joined(r, root_kind, old_name))
    THEN Outcome(Err("NotFound", old_name), r, {})
    ELSE IF Joined(r, root_kind, old_name).kind # "dir"
    THEN Outcome(Err("NotADirectory", old_name), r, {})
    ELSE IF Exists(Joined(r, root_kind, new_name))
    THEN Outcome(Err("AlreadyExists", new_name), r, {})
    ELSE IF ~io.dir THEN Outcome(Err("RenameDirectoryFailed", <<>>), r, {"dir"})
    ELSE LET moved == MoveDir(r, old_name, new_name)
             file == rename_main_recording_file(moved[new_name].top, old_name,
                                                new_name, io.file)
         IN  IF ~file.ok
             THEN Outcome(Err("RenameFileFailed", <<>>), moved, {"file"})
             ELSE Outcome(Ok("Renamed", <<>>),
                          [moved EXCEPT ![new_name].top = file.files], {})

\* faulty variant: a target that exists is not looked for
rename_recording_impl_over(old_name, new_name, r, root_kind, io) ==
    IF old_name = "" THEN Outcome(Err("EmptyName", <<>>), r, {})
    ELSE IF new_name = "" THEN Outcome(Err("EmptyNewName", <<>>), r, {})
    ELSE IF old_name = new_name THEN Outcome(Err("SameName", <<>>), r, {})
    ELSE IF ~Exists(Joined(r, root_kind, old_name))
    THEN Outcome(Err("NotFound", old_name), r, {})
    ELSE IF Joined(r, root_kind, old_name).kind # "dir"
    THEN Outcome(Err("NotADirectory", old_name), r, {})
    ELSE IF ~io.dir THEN Outcome(Err("RenameDirectoryFailed", <<>>), r, {"dir"})
    ELSE LET moved == MoveDir(r, old_name, new_name)
             file == rename_main_recording_file(moved[new_name].top, old_name,
                                                new_name, io.file)
         IN  IF ~file.ok
             THEN IF ~io.rollback
                  THEN Outcome(Err("RenameFileAndRollbackFailed", <<>>), moved,
                               {"file", "rollback"})
                  ELSE Outcome(Err("RenameFileFailed", <<>>), r, {"file"})
             ELSE Outcome(Ok("Renamed", <<>>),
                          [moved EXCEPT ![new_name].top = file.files], {})

\* rename_recording_impl; io says which of its fs::rename calls succeed when
\* they are made. The modification times are left as they are.
rename_recording_impl(old_name, new_name, r, root_kind, io) ==
    IF old_name = "" THEN Outcome(Err("EmptyName", <<>>), r, {})
    ELSE IF new_name = "" THEN Outcome(Err("EmptyNewName", <<>>), r, {})
    ELSE IF old_name = new_name THEN Outcome(Err("SameName", <<>>), r, {})
    ELSE IF ~Exists(Joined(r, root_kind, old_name))
    THEN Outcome(Err("NotFound", old_name), r, {})
    ELSE IF Joined(r, root_kind, old_name).kind # "dir"
    THEN Outcome(Err("NotADirectory", old_name), r, {})
    ELSE IF Exists(Joined(r, root_kind, new_name))
    THEN Outcome(Err("AlreadyExists", new_name), r, {})
    ELSE IF ~io.dir THEN Outcome(Err("RenameDirectoryFailed", <<>>), r, {"dir"})
    ELSE LET moved == MoveDir(r, old_name, new_name)
             file == rename_main_recording_file(moved[new_name].top, old_name,
                                                new_name, io.file)
         IN  IF ~file.ok
             THEN IF ~io.rollback
                  THEN Outcome(Err("RenameFileAndRollbackFailed", <<>>), moved,
                               {"file", "rollback"})
                  ELSE Outcome(Err("RenameFileFailed", <<>>), r, {"file"})
             ELSE Outcome(Ok("Renamed", <<>>),
                          [moved EXCEPT ![new_name].top = file.files], {})

\* the rename before this one, when it succeeded
LastRename ==
    IF ret.op = "rename_recording" /\ ret.result.ok
    THEN Some([old_name |-> ret.old_name, new_name |-> ret.new_name,
               before |-> ret.before])
    ELSE None

\* the rename_recording command
RenameRecording(old_name, new_name, io) ==
    LET out == rename_recording_impl(old_name, new_name, root, config.recordings_path, io)
    IN  /\ root' = out.root
        /\ ret' = [op |-> "rename_recording", old_name |-> old_name,
                   new_name |-> new_name, before |-> root, result |-> out.result,
                   failed |-> out.failed, last |-> LastRename]
        /\ UNCHANGED <<workspace, config, recording, calls, procs>>

\* what remove_dir_all can leave of a directory when it fails: all of it, or
\* the directory with a part of its content removed
Remains(d) == {d, [d EXCEPT !.top = <<>>]}

\* delete_recording_impl; removed is FALSE when remove_dir_all fails, and
\* rest is what it leaves then
delete_recording_impl(recording_name, r, root_kind, removed, rest) ==
    LET path == Joined(r, root_kind, recording_name)
        gone == [n \in DOMAIN r |-> NoEntry]
    IN  IF ~Exists(path)
        THEN [result |-> Err("NotFound", recording_name), root |-> r,
              root_kind |-> root_kind]
        ELSE IF path.kind # "dir"
        THEN [result |-> Err("NotADirectory", recording_name), root |-> r,
              root_kind |-> root_kind]
        ELSE IF ~removed
        THEN [result |-> Err("DeleteFailed", recording_name),
              root |-> IF recording_name = "" THEN r
                       ELSE [r EXCEPT ![recording_name] = rest],
              root_kind |-> root_kind]
        ELSE IF recording_name = ""
        THEN [result |-> Ok("Deleted", <<>>), root |-> gone, root_kind |-> "none"]
        ELSE [result |-> Ok("Deleted", <<>>),
              root |-> [r EXCEPT ![recording_name] = NoEntry],
              root_kind |-> root_kind]

\* the delete_recording command
DeleteRecording(recording_name, removed, rest) ==
    LET out == delete_recording_impl(recording_name, root, config.recordings_path,
                                     removed, rest)
    IN  /\ root' = out.root
        /\ config' = [config EXCEPT !.recordings_path = out.root_kind]
        /\ ret' = [op |-> "delete_recording", recording_name |-> recording_name,
                   before |-> root, root_kind |-> config.recordings_path,
                   result |-> out.result]
        /\ UNCHANGED <<workspace, recording, calls, procs>>

----------------------------------------------------------------------------
(* Inputs of rename and delete *)

\* the primary video under the directory's name, under another name, with
\* another extension, next to other files; none at all
TopSamples ==
    {<<FName("rec", "mkv")>>,
     <<FName("rec", "mkv"), FName("metadata", "json")>>,
     <<FName("rec", "mp4")>>,
     <<FName("alt", "mkv")>>,
     <<FName("rec", "mkv"), FName("alt", "mkv")>>,
     <<>>}

ManageDirs ==
    {[BareDir("rec") EXCEPT !.top = top, !.extracted = ex] :
        top \in TopSamples, ex \in {NoSub, DirSub(<<FName("audio", "m4a")>>)}}

IO == [dir : BOOLEAN, file : BOOLEAN, rollback : BOOLEAN]

InitManage ==
    /\ \E d \in ManageDirs, other \in {NoEntry, FileEntry, BareDir("alt")} :
          root = [n \in Names |-> IF n = "rec" THEN d ELSE other]
    /\ workspace = [medusaConfig |-> TRUE]
    /\ config = [recordings_path |-> "dir", main_audio_file |-> NoAudio]
    /\ recording = [name |-> "rec", status |-> Recorded, file_sizes |-> {}]
    /\ calls = [c \in Callers |-> IdleFrame]
    /\ procs = [c \in Callers |-> <<>>]
    /\ ret = NoRet

NextManage ==
    \/ \E old_name, new_name \in CommandNames, io \in IO :
          RenameRecording(old_name, new_name, io)
    \/ \E name \in CommandNames, removed \in BOOLEAN :
          \E rest \in Remains(Joined(root, config.recordings_path, name)) :
              DeleteRecording(name, removed, rest)

SpecManage == InitManage /\ [][NextManage]_vars

----------------------------------------------------------------------------
(* Claims about rename_recording and delete_recording *)

Renamed == ret.op = "rename_recording"

\* the directory the rename was called on, as it was before the call
Source == ret.before[ret.old_name]

\* the files of a directory with the primary video of the old name given the
\* new name and every other file left as it is
WithPrimaryRenamed(files, old_name, new_name) ==
    [i \in 1..Len(files) |-> IF files[i] = FName(old_name, "mkv")
                             THEN FName(new_name, "mkv") ELSE files[i]]

\* the call passed every validation of rename_recording
Legal ==
    /\ ret.old_name # "" /\ ret.new_name # "" /\ ret.old_name # ret.new_name
    /\ Source.kind = "dir"
    /\ ret.before[ret.new_name].kind = "none"

\* C25: after a successful rename old -> new there is nothing under the old
\* name and the directory is under the new name with all it held, <old>.mkv
\* now named <new>.mkv and every other file under its name; a directory
\* without <old>.mkv is renamed all the same
C25_RenameSuccess ==
    Renamed =>
        /\ ret.result.ok
              => /\ root[ret.old_name] = NoEntry
                 /\ root[ret.new_name] =
                       [Source EXCEPT !.top = WithPrimaryRenamed(Source.top, ret.old_name,
                                                                 ret.new_name)]
        /\ (Legal /\ ret.failed = {} /\ ~Contains(Source.top, FName(ret.old_name, "mkv")))
              => ret.result.ok

\* C26: a rename A -> B followed by the rename B -> A, both successful,
\* restores the directory A as it was before the first one
C26_RenameRoundTrip ==
    (Renamed /\ ret.result.ok /\ ret.last.some
        /\ ret.last.val.old_name = ret.new_name /\ ret.last.val.new_name = ret.old_name)
        => root = ret.last.val.before

\* C27: when the rename of the primary file fails the call returns an error;
\* the directory is renamed back and all is as before the call, or, when that
\* fails too, the directory stays under the new name with the file under its
\* old name and the error names both failures
C27_RollbackOnFileFailure ==
    (Renamed /\ "file" \in ret.failed)
        => /\ ~ret.result.ok
           /\ IF "rollback" \in ret.failed
              THEN /\ ret.result.kind = "RenameFileAndRollbackFailed"
                   /\ root[ret.old_name] = NoEntry
                   /\ root[ret.new_name] = Source
                   /\ Contains(root[ret.new_name].top, FName(ret.old_name, "mkv"))
              ELSE /\ ret.result.kind = "RenameFileFailed"
                   /\ root = ret.before

\* the file could not be renamed and the directory is back under its name
C27_Witness ==
    /\ Renamed
    /\ ret.failed = {"file"}
    /\ ret.result = Err("RenameFileFailed", <<>>)
    /\ root = ret.before
    /\ Contains(root[ret.old_name].top, FName(ret.old_name, "mkv"))

\* C28: rename_recording returns an error and changes nothing when a name is
\* empty, the names are equal, the source is missing or not a directory, or
\* the target exists; source and target are both still there in the last case
C28_RenameRejected ==
    (Renamed /\ (\/ ret.old_name = "" \/ ret.new_name = ""
                 \/ ret.old_name = ret.new_name
                 \/ Source.kind # "dir"
                 \/ ret.before[ret.new_name].kind # "none"))
        => /\ ~ret.result.ok
           /\ root = ret.before
           /\ (ret.old_name # "" /\ ret.new_name # "" /\ ret.old_name # ret.new_name
               /\ Source.kind = "dir")
                 => /\ ret.result = Err("AlreadyExists", ret.new_name)
                    /\ root[ret.old_name].kind = "dir"
                    /\ Exists(root[ret.new_name])

\* both directories are there after a rename onto a name that is taken
C28_Witness ==
    /\ Renamed
    /\ ret.result = Err("AlreadyExists", ret.new_name)
    /\ root[ret.old_name].kind = "dir"
    /\ root[ret.new_name].kind = "dir"
    /\ root = ret.before

Deleted == ret.op = "delete_recording"

\* what the name named in the recordings directory before the call; the
\* empty string names no recording
Named == IF ret.recording_name \in Names /\ ret.root_kind = "dir"
         THEN ret.before[ret.recording_name] ELSE NoEntry

NothingChanged == root = ret.before /\ config.recordings_path = ret.root_kind

\* C29: delete_recording on the name of a directory removes the directory,
\* and a scan does not list it any more (unless the removal itself fails); on
\* a name that names nothing it fails with 'not found', on a name that is not
\* a directory it fails, and in both cases nothing is changed
C29_DeleteExact ==
    Deleted =>
        /\ (Named.kind = "dir" /\ ret.result # Err("DeleteFailed", ret.recording_name))
              => /\ ret.result.ok
                 /\ root = [ret.before EXCEPT ![ret.recording_name] = NoEntry]
                 /\ \A order \in Orders :
                       Find(scan_recordings(config.recordings_path, root, order),
                            ret.recording_name) = None
        /\ Named.kind = "none"
              => ret.result = Err("NotFound", ret.recording_name) /\ NothingChanged
        /\ Named.kind = "file"
              => ~ret.result.ok /\ NothingChanged

----------------------------------------------------------------------------
(* get_playable_video_path *)

\* the characters of the stems and extensions of the files in blender/render
Spelling ==
    [final |-> <<"f","i","n","a","l">>,
     x_final |-> <<"x","_","f","i","n","a","l">>,
     xfinal |-> <<"x","f","i","n","a","l">>,
     out |-> <<"o","u","t">>,
     mp4 |-> <<"m","p","4">>, mkv |-> <<"m","k","v">>, avi |-> <<"a","v","i">>]

\* Path::file_name
FileName(f) ==
    Spelling[f.stem] \o (IF f.ext = "" THEN <<>> ELSE <<".">> \o Spelling[f.ext])

\* str::ends_with
EndsWith(s, suffix) ==
    /\ Len(s) >= Len(suffix)
    /\ SubSeq(s, Len(s) - Len(suffix) + 1, Len(s)) = suffix

FinalMp4 == <<"f","i","n","a","l",".","m","p","4">>

\* file_name == "final.mp4" || file_name.ends_with("_final.mp4")
IsFinal(f) ==
    FileName(f) = FinalMp4 \/ EndsWith(FileName(f), <<"_">> \o FinalMp4)

VideoExtensions == {"mkv", "mp4", "avi", "mov"}

\* get_playable_video_path on what recordings_path.join(recording_name) names
get_playable_video_path(recording_name, d) ==
    IF ~Exists(d) THEN Err("NotFound", recording_name)
    ELSE LET finals == SelectSeq(Entries(d.render), IsFinal)
             video_files == SelectSeq(d.top, LAMBDA f : Extension(f) \in VideoExtensions)
             named == SelectSeq(video_files, LAMBDA f : f.stem = recording_name)
         IN  IF finals # <<>> THEN Ok("Path", InDir("blender/render", finals[1]))
             ELSE IF named # <<>> THEN Ok("Path", InDir("", named[1]))
             ELSE IF video_files # <<>> THEN Ok("Path", InDir("", video_files[1]))
             ELSE Err("NoPlayableVideo", recording_name)

GetPlayableVideoPath(recording_name) ==
    /\ ret' = [op |-> "get_playable_video_path", recording_name |-> recording_name,
               val |-> get_playable_video_path(
                          recording_name,
                          Joined(root, config.recordings_path, recording_name))]
    /\ UNCHANGED <<root, workspace, config, recording, calls, procs>>

\* render directories without a video, with a final video, and with videos
\* of other names
PlayRenders ==
    {NoSub, LockedSub, DirSub(<<>>),
     DirSub(<<FName("final", "mp4")>>),
     DirSub(<<FName("out", "mp4"), FName("x_final", "mp4")>>),
     DirSub(<<FName("out", "mp4")>>),
     DirSub(<<FName("xfinal", "mp4")>>),
     DirSub(<<FName("final", "mkv")>>),
     DirSub(<<FName("out", "avi")>>)}

PlayTops ==
    {<<>>, <<FName("notes", "txt")>>, <<FName("rec", "mkv")>>,
     <<FName("clip", "mp4"), FName("rec", "mkv")>>,
     <<FName("clip", "mov"), FName("take", "avi")>>}

PlayDirs ==
    {[BareDir("rec") EXCEPT !.top = top, !.render = render,
                            !.blender = IF Exists(render)
                                        THEN DirSub(<<FName("project", "blend")>>)
                                        ELSE NoSub] :
        top \in PlayTops, render \in PlayRenders}

InitPlay ==
    /\ \E d \in PlayDirs, other \in {NoEntry, FileEntry} :
          root = [n \in Names |-> IF n = "rec" THEN d ELSE other]
    /\ workspace = [medusaConfig |-> TRUE]
    /\ config = [recordings_path |-> "dir", main_audio_file |-> NoAudio]
    /\ recording = [name |-> "rec", status |-> Recorded, file_sizes |-> {}]
    /\ calls = [c \in Callers |-> IdleFrame]
    /\ procs = [c \in Callers |-> <<>>]
    /\ ret = NoRet

NextPlay == \E name \in CommandNames : GetPlayableVideoPath(name)

SpecPlay == InitPlay /\ [][NextPlay]_vars

----------------------------------------------------------------------------
(* Claim about get_playable_video_path *)

TopVideos(d) == {d.top[i] : i \in {i \in 1..Len(d.top) : Extension(d.top[i]) \in VideoExtensions}}

\* C30: for a recording with a rendered video in blender/render (a file that
\* makes has_rendered_video true) get_playable_video_path returns a file of
\* blender/render; without one it returns a top-level video whose stem is the
\* recording name, else a top-level video, else an error
C30_RenderedPreferred ==
    (ret.op = "get_playable_video_path" /\ ret.recording_name \in Names
        /\ root[ret.recording_name].kind = "dir")
        => LET d == root[ret.recording_name]
               named == {f \in TopVideos(d) : f.stem = ret.recording_name}
           IN  IF has_rendered_video(d)
               THEN /\ ret.val.ok
                    /\ ret.val.detail.dir = "blender/render"
                    /\ Contains(d.render.files, ret.val.detail.file)
               ELSE IF named # {}
               THEN ret.val.ok /\ ret.val.detail.dir = "" /\ ret.val.detail.file \in named
               ELSE IF TopVideos(d) # {}
               THEN /\ ret.val.ok /\ ret.val.detail.dir = ""
                    /\ ret.val.detail.file \in TopVideos(d)
               ELSE ~ret.val.ok

----------------------------------------------------------------------------
(* Claims on the commands (under Spec), continued *)

\* C32: run_next_step on a recording whose status is Failed executes the
\* concrete step the retry probes give for its directory, the step that
\* run_specific_step with the step 'retry' executes for the same directory
C32_NextStepResolvesRetry ==
    (ret.op = "run_next_step" /\ ret.status # None /\ ret.status.tag = "Failed"
        /\ ParseStep(RetryName, ret.status, ret.seen).ok)
        => ret.executed = ParseStep(RetryName, ret.status, ret.seen).detail

\* C33: run_specific_step starts an external process only for a recording
\* that the scan of the call lists and a step that can_run_step allows for
\* the status of that scan; a recording that is not listed gives 'not found'
\* and a step that is not allowed gives the invalid-state error with the step
\* and the status, both with no prerequisite looked at and nothing started
C33_SpawnOnlyWhenLegal ==
    /\ \A c \in Callers :
          (calls[c].pc = "await" /\ calls[c].op = "run_specific_step")
             => /\ calls[c].status # None
                /\ is_valid_recording_dir(calls[c].seen)
                /\ can_run_step(calls[c].status, calls[c].step)
    /\ (ret.op = "run_specific_step" /\ ret.procs # <<>>)
          => /\ ret.status # None
             /\ is_valid_recording_dir(ret.seen)
             /\ can_run_step(ret.status, ret.step)
    /\ (ret.op = "run_specific_step" /\ ~is_valid_recording_dir(ret.seen))
          => ret.val = Err("NotFound", <<>>) /\ ret.procs = <<>> /\ ret.executed = "none"
    /\ (ret.op = "run_specific_step" /\ ret.status # None
        /\ ~can_run_step(ret.status, ret.step))
          => /\ ret.val = Err("InvalidState", [step |-> ret.step, status |-> ret.status])
             /\ ret.procs = <<>>
             /\ ret.executed = "none"

\* upload was asked for a recording that is only extracted and has no render
\* directory: the answer is the invalid state, not the missing directory
C33_Witness ==
    /\ ret.op = "run_specific_step"
    /\ ret.step = UploadName
    /\ ret.status = Extracted
    /\ ~Exists(ret.seen.render)
    /\ ret.val = Err("InvalidState", [step |-> UploadName, status |-> Extracted])
    /\ ret.procs = <<>>

\* the first file with the extension in enumeration order is f
IsFirstWithExt(files, ext, f) ==
    \E i \in 1..Len(files) :
        /\ files[i] = f
        /\ files[i].ext = ext
        /\ \A j \in 1..(i - 1) : files[j].ext # ext

\* the processes are one run of the analysis tool on the first .m4a file of
\* the directory, writing to analysis/
OneAnalysis(ps, d) ==
    /\ Len(ps) = 1
    /\ ps[1].tool = "beatrix"
    /\ IsFirstWithExt(d.extracted.files, "m4a", ps[1].args.audio)
    /\ ps[1].args.out = "analysis"

\* C34: the Analyze step runs the analysis tool once, on the first .m4a file
\* of extracted/ in enumeration order with analysis/ as its output; when
\* extracted/ holds no .m4a file it fails with the list of the files that are
\* there and starts nothing
C34_AnalyzeFirstAudio ==
    /\ \A c \in Callers :
          (calls[c].pc = "await" /\ calls[c].executed = "Analyze")
             => OneAnalysis(procs[c], calls[c].seen)
    /\ (Returned /\ ret.executed = "Analyze" /\ ret.procs # <<>>)
          => OneAnalysis(ret.procs, ret.seen)
    /\ (Returned /\ ret.executed = "Analyze" /\ ret.seen.extracted.kind = "dir"
        /\ HasNoExt(ret.seen.extracted, "m4a"))
          => /\ ret.val = Err("NoAudioFile", ret.seen.extracted.files)
             /\ ret.procs = <<>>

\* of two audio files behind a text file the first one was analysed
C34_Witness ==
    /\ Returned
    /\ ret.executed = "Analyze"
    /\ ret.seen.extracted.files = <<FName("notes", "txt"), FName("y", "m4a"), FName("x", "m4a")>>
    /\ Len(ret.procs) = 1
    /\ ret.procs[1].args.audio = FName("y", "m4a")
    /\ ret.val.ok

----------------------------------------------------------------------------
(* SetupRender with every main-audio setting on every extracted/ directory *)

SetupDirs ==
    {[BareDir("rec") EXCEPT !.extracted = ex,
                            !.analysis = DirSub(<<FName("beats", "json")>>)] :
        ex \in AudioSamples}

InitSetup ==
    /\ \E d \in SetupDirs : root = [n \in Names |-> IF n = "rec" THEN d ELSE NoEntry]
    /\ workspace = [medusaConfig |-> TRUE]
    /\ \E f \in AudioSettings : config = [recordings_path |-> "dir", main_audio_file |-> f]
    /\ recording = [name |-> "rec", status |-> Recorded, file_sizes |-> {}]
    /\ calls = [c \in Callers |-> IdleFrame]
    /\ procs = [c \in Callers |-> <<>>]
    /\ ret = NoRet

NextSetup ==
    \/ \E c \in Sequential : RunNextStep(c, "rec")
    \/ \E c \in Sequential, step \in {SetupRenderName, SetupRenderDashName} :
          RunSpecificStep(c, "rec", step)
    \/ \E c \in Sequential, o \in Outcomes, produced \in BOOLEAN :
          ProcessExit(c, o, produced)
    \/ \E c \in Sequential : Resume(c)

SpecSetup == InitSetup /\ [][NextSetup]_vars

\* the main-audio argument the generator is to get for directory d: the
\* configured name with several audio files of which it is one, else none
MainAudioFor(d, cfg) ==
    IF /\ d.extracted.kind = "dir"
       /\ Len(AudioOf(d.extracted)) > 1
       /\ cfg.main_audio_file # NoAudio
       /\ \E i \in 1..Len(AudioOf(d.extracted)) :
             AudioOf(d.extracted)[i] = cfg.main_audio_file
    THEN Some(cfg.main_audio_file)
    ELSE None

\* the first process of a SetupRender is the generator with the preset
\* beat-switch and the main-audio argument that belongs to the directory
GeneratorAsClaimed(ps, d) ==
    /\ ps[1].tool = "cinemon-generate-config"
    /\ ps[1].args.preset = "beat-switch"
    /\ ps[1].args.main_audio = MainAudioFor(d, config)

\* C35: SetupRender passes the configured main-audio name to the config
\* generator only with more than one .m4a file in extracted/ of which the name
\* is one; with no or one .m4a file or no extracted/ the generator runs
\* without it whatever is configured; the preset is always beat-switch
C35_MainAudioOnlyWhenSeveral ==
    /\ \A c \in Callers :
          (calls[c].pc = "await" /\ calls[c].executed = "SetupRender")
             => GeneratorAsClaimed(procs[c], calls[c].seen)
    /\ (Returned /\ ret.executed = "SetupRender" /\ ret.procs # <<>>)
          => GeneratorAsClaimed(ret.procs, ret.seen)
    /\ (Returned /\ ret.executed = "SetupRender" /\ ret.seen.extracted.kind \in {"none", "dir"}
        /\ Len(AudioOf(ret.seen.extracted)) <= 1 /\ ~ret.spawn_failed)
          => ret.procs # <<>>

\* one audio file, and it is the configured one: the generator ran without it
C35_Witness ==
    /\ Returned
    /\ ret.executed = "SetupRender"
    /\ ret.seen.extracted.files = <<FName("x", "m4a")>>
    /\ config.main_audio_file = FName("x", "m4a")
    /\ ret.procs # <<>>
    /\ ret.procs[1].args.main_audio = None

----------------------------------------------------------------------------
(* Claims on the agreement of detector and executor (under Spec) *)

\* C36: detector and executor agree on the stage markers: the Upload step of a
\* recording detected as Rendered does not fail for want of an .mp4 file in
\* blender/render, and the Render step of a recording detected as
\* SetupRendered does not fail for want of a .blend file
C36_DetectorExecutorAgree ==
    (Returned /\ ret.status # None)
       => /\ (ret.status.tag = "Rendered" /\ ret.executed = "Upload")
                => ret.val.kind \notin {"NoVideoFile", "RenderDirNotFound"}
          /\ (ret.status.tag = "SetupRendered" /\ ret.executed = "Render")
                => ret.val.kind \notin {"NoBlendFile", "BlenderProjectNotFound"}

\* C37: no step of a command creates, changes or removes error.log or .failed
\* of any recording, and a recording detected as Failed is detected as Failed
\* with the same reason after every step, the tools leaving the markers alone
C37_ErrorMarkersUntouched ==
    [][\A n \in Names :
          /\ root'[n].errorLog = root[n].errorLog
          /\ root'[n].failed = root[n].failed
          /\ detect_status(root[n]).tag = "Failed"
                => detect_status(root'[n]) = detect_status(root[n])]_vars

\* a retry whose tool succeeded and changed the directory: still Failed
C37_Witness ==
    /\ ret.op = "run_specific_step"
    /\ ret.step = RetryName
    /\ ret.status.tag = "Failed"
    /\ ret.result # None
    /\ ret.result.val.success
    /\ ret.val.ok
    /\ root[ret.name] # ret.seen
    /\ detect_status(root[ret.name]) = ret.status

----------------------------------------------------------------------------
(* Recording::get_available_steps *)

\* NextStep::to_string, the inherent method, which a call of to_string() on a
\* NextStep resolves to
to_string(step) ==
    CASE step = "Extract" -> <<"E","x","t","r","a","c","t">>
      [] step = "Analyze" -> <<"A","n","a","l","y","z","e">>
      [] step = "SetupRender" -> <<"S","e","t","u","p"," ","R","e","n","d","e","r">>
      [] step = "Render" -> <<"R","e","n","d","e","r">>
      [] step = "Upload" -> <<"U","p","l","o","a","d">>
      [] step = "Retry" -> <<"R","e","t","r","y">>

\* impl Display for NextStep
fmt(step) ==
    CASE step = "Extract" -> ExtractName
      [] step = "Analyze" -> AnalyzeName
      [] step = "SetupRender" -> SetupRenderName
      [] step = "Render" -> RenderName
      [] step = "Upload" -> UploadName
      [] step = "Retry" -> RetryName

\* Recording::get_available_steps
get_available_steps(status) ==
    LET next_step == get_next_step(status)
        steps == IF next_step.some THEN <<to_string(next_step.val)>> ELSE <<>>
    IN CASE status.tag = "Extracted" -> steps \o <<ExtractName>>
         [] status.tag = "Analyzed" -> steps \o <<ExtractName, AnalyzeName>>
         [] status.tag = "Rendered" ->
                steps \o <<ExtractName, AnalyzeName, RenderName>>
         [] status.tag = "Uploaded" ->
                steps \o <<ExtractName, AnalyzeName, RenderName, UploadName>>
         [] OTHER -> steps

\* recording.get_available_steps() on the Recording the caller holds
GetAvailableSteps ==
    /\ ret' = [op |-> "get_available_steps", status |-> recording.status,
               val |-> get_available_steps(recording.status)]
    /\ UNCHANGED <<root, workspace, config, recording, calls, procs>>

NextSteps ==
    \/ GetAvailableSteps
    \/ GetNextStep
    \/ \E step \in StepNames : CanRunStep(step)

SpecSteps == InitModel /\ [][NextSteps]_vars

\* name is one of the names of the list
Offered(steps, name) == \E i \in 1..Len(steps) : steps[i] = name

\* C38: every name get_available_steps offers is accepted by can_run_step for
\* the same status, the list holds the name of the next step, and for an
\* Analyzed recording it holds render, extract and analyze
C38_OfferedStepsRunnable ==
    ret.op = "get_available_steps"
       => /\ \A i \in 1..Len(ret.val) : can_run_step(ret.status, ret.val[i])
          /\ get_next_step(ret.status).some
                => \E i \in 1..Len(ret.val) :
                      ToLowercase(ret.val[i]) = fmt(get_next_step(ret.status).val)
          /\ ret.status.tag = "Analyzed"
                => /\ Offered(ret.val, RenderName)
                   /\ Offered(ret.val, ExtractName)
                   /\ Offered(ret.val, AnalyzeName)

----------------------------------------------------------------------------
(* Claims on the primary video after a rename (under SpecManage) *)

\* the extensions a primary video file of a recording can have
RecordingExtensions == {"mkv", "mp4"}

\* the directory holds a primary video file named after the recording
HasPrimary(d, name) ==
    \E i \in 1..Len(d.top) :
        d.top[i].stem = name /\ d.top[i].ext \in RecordingExtensions

\* C39: after a successful rename old -> new of a directory that held a
\* primary video <old>.mkv or <old>.mp4, the directory holds a primary video
\* whose stem is the new name, and get_playable_video_path finds it by name
C39_PrimaryFollowsRename ==
    (Renamed /\ Legal /\ ret.result.ok /\ HasPrimary(Source, ret.old_name))
       => /\ HasPrimary(root[ret.new_name], ret.new_name)
          /\ get_playable_video_path(ret.new_name, root[ret.new_name]).ok
          /\ get_playable_video_path(ret.new_name, root[ret.new_name]).detail.file.stem
                = ret.new_name

----------------------------------------------------------------------------
(* rename_recording, scans and steps of several callers interleaved *)

\* the caller that renames, beside the callers that run steps
Renamer == "ui3"

RaceCallers == Callers \cup {Renamer}

\* rename_recording up to and with fs::rename(old_dir, new_dir): it returns the
\* error of a validation or of the rename, or goes on to the primary file
BeginRename(c, old_name, new_name, dir_ok) ==
    LET checked == rename_recording_impl(old_name, new_name, root, config.recordings_path,
                                         [dir |-> dir_ok, file |-> TRUE, rollback |-> TRUE])
    IN  /\ calls[c].pc = "idle"
        /\ IF ~checked.result.ok
           THEN /\ ret' = [op |-> "rename_recording", old_name |-> old_name,
                           new_name |-> new_name, before |-> root,
                           result |-> checked.result, failed |-> checked.failed,
                           last |-> None]
                /\ UNCHANGED <<root, calls>>
           ELSE /\ root' = MoveDir(root, old_name, new_name)
                /\ calls' = [calls EXCEPT ![c] =
                                [pc |-> "renamed_dir", op |-> "rename_recording",
                                 old_name |-> old_name, new_name |-> new_name,
                                 before |-> root]]
                /\ ret' = NoRet
        /\ UNCHANGED <<workspace, config, recording, procs>>

\* rename_recording from rename_main_recording_file to its return; the
\* rollback fs::rename(new_dir, old_dir) is made on the directory as it is then
FinishRename(c, file_ok, rollback_ok) ==
    /\ calls[c].pc = "renamed_dir"
    /\ LET old_name == calls[c].old_name
           new_name == calls[c].new_name
           file == rename_main_recording_file(root[new_name].top, old_name, new_name,
                                              file_ok)
           back == rollback_ok /\ root[new_name].kind # "none"
                       /\ root[old_name].kind = "none"
       IN  /\ root' = IF file.ok THEN [root EXCEPT ![new_name].top = file.files]
                      ELSE IF back THEN MoveDir(root, new_name, old_name)
                      ELSE root
           /\ ret' = [op |-> "rename_recording", old_name |-> old_name,
                      new_name |-> new_name, before |-> calls[c].before,
                      result |-> IF file.ok THEN Ok("Renamed", <<>>)
                                 ELSE IF back THEN Err("RenameFileFailed", <<>>)
                                 ELSE Err("RenameFileAndRollbackFailed", <<>>),
                      failed |-> IF file.ok THEN {}
                                 ELSE IF back THEN {"file"} ELSE {"file", "rollback"},
                      last |-> None]
    /\ calls' = [calls EXCEPT ![c] = IdleFrame]
    /\ UNCHANGED <<workspace, config, recording, procs>>

\* one recording with its primary video and an extracted audio file
InitRace ==
    /\ root = [n \in Names |->
                 IF n = "rec"
                 THEN [BareDir("rec") EXCEPT !.top = <<FName("rec", "mkv")>>,
                                             !.extracted = DirSub(<<FName("x", "m4a")>>)]
                 ELSE NoEntry]
    /\ workspace = [medusaConfig |-> TRUE]
    /\ config = [recordings_path |-> "dir", main_audio_file |-> NoAudio]
    /\ recording = [name |-> "rec", status |-> Recorded, file_sizes |-> {}]
    /\ calls = [c \in RaceCallers |-> IdleFrame]
    /\ procs = [c \in RaceCallers |-> <<>>]
    /\ ret = NoRet

NextRace ==
    \/ \E old_name, new_name \in Names, dir_ok \in BOOLEAN :
          BeginRename(Renamer, old_name, new_name, dir_ok)
    \/ \E file_ok, rollback_ok \in BOOLEAN : FinishRename(Renamer, file_ok, rollback_ok)
    \/ \E order \in Orders : ScanRecordings(order)
    \/ \E c \in Callers, n \in Names : RunSpecificStep(c, n, AnalyzeName)
    \/ \E c \in Callers, o \in Outcomes, produced \in BOOLEAN :
          ProcessExit(c, o, produced)
    \/ \E c \in Callers : Resume(c)

SpecRace == InitRace /\ [][NextRace]_vars

\* the rename of the Renamer is between its two fs calls
MidRename == calls[Renamer].pc = "renamed_dir"

\* a scan result that lists the recording under the new name of the rename in
\* progress, not under the old one, with its primary video still <old>.mkv
HalfRenamedSeen(recordings) ==
    LET old_name == calls[Renamer].old_name
        new_name == calls[Renamer].new_name
    IN  /\ Find(recordings, new_name).some
        /\ ~Find(recordings, old_name).some
        /\ \E e \in Find(recordings, new_name).val.file_sizes :
              e.path.file = FName(old_name, "mkv")
        /\ \A e \in Find(recordings, new_name).val.file_sizes :
              e.path.file # FName(new_name, "mkv")

\* C31: no lock protects a recording directory: a scan made between the
\* directory rename and the primary-file rename of rename_recording lists the
\* recording under the new name with its primary video <old>.mkv still named
\* after the old one, and while a step is in progress on a recording another caller can
\* start a step on the same recording, which then is in progress as well
C31_NoLock ==
    /\ (MidRename /\ ret.op = "scan_recordings"
           /\ Contains(calls[Renamer].before[calls[Renamer].old_name].top,
                       FName(calls[Renamer].old_name, "mkv")))
          => HalfRenamedSeen(ret.val)
    /\ \A c, o \in Callers :
          (c # o /\ calls[c].pc = "await" /\ calls[o].pc = "idle"
              /\ root[calls[c].name] = calls[c].seen)
             => ENABLED (/\ RunSpecificStep(o, calls[c].name, calls[c].step)
                         /\ calls'[o].pc = "await")

\* a scan has seen the half-renamed directory while two steps started on the
\* recording are both awaiting their process
C31_Witness ==
    /\ MidRename
    /\ ret.op = "scan_recordings"
    /\ HalfRenamedSeen(ret.val)
    /\ \A c \in Callers :
          /\ calls[c].pc = "await"
          /\ calls[c].name = calls[Renamer].old_name
          /\ procs[c][Len(procs[c])].state = "running"

====
